---- MODULE Spec2Model ----
(***************************************************************************)
(* Model of libmamba's transaction execution                               *)
(* (libmamba/src/core/transaction.cpp): MTransaction::init,                *)
(* MTransaction::execute, MTransaction::fetch_extract_packages,            *)
(* PackageDownloadExtractTarget and TransactionRollback.                   *)
(*                                                                         *)
(* A package is a pair <<name, version>>.  The conda-meta directory of the *)
(* prefix is the set of packages that have a record in it.                 *)
(*                                                                         *)
(* Spec follows MTransaction::execute on a solved transaction.  CtorSpec   *)
(* follows the constructors that take explicit specs or the packages of a  *)
(* lockfile, CacheSpec one PackageDownloadExtractTarget over the caches of *)
(* a MultiPackageCache, ValidateSpec one call of validate(), RelinkSpec    *)
(* the relink of the noarch python packages at the end of the constructor  *)
(* that takes a solved solver, SortSpec one call of                        *)
(* PrefixData::sorted_records, ConflictSpec a conflict_map under its       *)
(* operations, PoolSpec the strings and the repos of an ObjPool,           *)
(* ProvidesSpec the what-provides index of a pool, used directly and by    *)
(* the constructors of explicit specs, ExtractSpec the extract() calls of  *)
(* two targets running on the threads of the MainExecutor, PrefixSpec the  *)
(* loading of a PrefixData, FetchSpec fetch_extract_packages alone, with   *)
(* the fairness of the threads that run its tasks.                         *)
(***************************************************************************)
EXTENDS Integers, Sequences, FiniteSets, TLC

\* ------------------------------------------------------------------ bounds
MaxVersion == 2
MaxExtractThreads == 1

\* ------------------------------------------------------------- the universe
Names == {"a", "b"}
Versions == 1 .. MaxVersion
Pkgs == Names \X Versions

Name(p) == p[1]
Version(p) == p[2]

ChangeTypes == {"DOWNGRADED", "UPGRADED", "CHANGED", "REINSTALLED"}

FilterTypes == {"none", "keep_only", "ignore"}

ValidationErrors == {"SHA256_ERROR", "MD5SUM_ERROR", "SIZE_ERROR", "EXTRACT_ERROR"}

VARIABLES
    ctx,                \* Context: dry_run, download_only, extract_threads
    steps,              \* m_transaction->steps, with each step's type and obs_pkg
    m_filter_type,
    m_filter_name_ids,
    m_to_install,
    m_to_remove,
    conda_meta,         \* records in <prefix>/conda-meta
    conda_meta0,        \* the records when execute started
    extracted,          \* packages with a valid extracted tree in some cache
    tarballs,           \* packages with a tarball in some cache (valid ones at start)
    sig_interrupted,    \* the process-wide interruption flag
    lock,               \* owner of <prefix>/conda-meta's lock file
    other,              \* another transaction on the same prefix
    pc,                 \* position of the thread running MTransaction::execute
    result,             \* how execute ended
    targets,            \* fetch_extract_packages' vector of targets
    semaphore,          \* free permits of DownloadExtractSemaphore::semaphore
    i,                  \* index of the transaction loop of execute
    m_link_stack,       \* TransactionRollback
    m_unlink_stack,
    m_history_entry,
    history,            \* entries of <prefix>/conda-meta/history
    pyc_running,        \* background pyc compilation of the transaction context
    ops                 \* log of the link/unlink operations and undos performed

\* the variables of MTransaction::execute
tx_vars == << ctx, steps, m_filter_type, m_filter_name_ids, m_to_install, m_to_remove,
              conda_meta, conda_meta0, extracted, tarballs, sig_interrupted, lock, other,
              pc, result, targets, semaphore, i, m_link_stack, m_unlink_stack,
              m_history_entry, history, pyc_running, ops >>

\* MTransaction(pool, specs_to_remove, specs_to_install, caches)
VARIABLES
    specs_to_remove,    \* the MatchSpecs to remove
    specs_to_install,   \* the packages of the explicit specs (or of the lockfile)
    not_found,          \* the remove specs that selected no solvable
    decision,           \* the decision queue
    ctor_pc,            \* position of the constructor
    ctor_k,             \* index of the loop over specs_to_remove
    what                \* the specs listed in the message of the exception thrown

ctor_vars == << specs_to_remove, specs_to_install, not_found, decision, ctor_pc,
               ctor_k, what >>

\* one PackageDownloadExtractTarget and the caches of a MultiPackageCache
VARIABLES
    caches,             \* the cache directories, in order, with what they hold of the package
    m_cache_path,       \* index of the cache that is m_cache_path, 0 when not set
    m_tarball_path,     \* index of the cache that holds m_tarball_path, 0 when not set
    extract_path,       \* index of the cache extract() extracted into, 0 when none
    t_case,             \* the case target() chose
    cache_pc            \* position of the target

cache_vars == << caches, m_cache_path, m_tarball_path, extract_path, t_case, cache_pc >>

\* PackageDownloadExtractTarget::validate
VARIABLES
    m_expected_size,
    downloaded_size,    \* m_target->get_downloaded_size()
    m_sha256,
    sha256sum,          \* validation::sha256sum(m_tarball_path)
    m_md5,
    md5sum,             \* validation::md5sum(m_tarball_path)
    m_validation_result,
    val_pc              \* position of validate

val_vars == << m_expected_size, downloaded_size, m_sha256, sha256sum, m_md5, md5sum,
               m_validation_result, val_pc >>

\* MTransaction(pool, solver, caches): the relink of noarch python packages
VARIABLES
    relink_noarch,      \* m_transaction_context.relink_noarch
    installed_repo,     \* pool_ptr->installed != nullptr
    noarch_python,      \* the installed solvables whose noarch type is "python"
    channel_pkgs,       \* the solvables of the repos of the loaded channels
    solver_decision,    \* the decision queue of the solver
    job,                \* the local queue job
    relink_k,           \* position of FOR_REPO_SOLVABLES over the installed repo
    relink_pc           \* position of the constructor

relink_vars == << relink_noarch, installed_repo, noarch_python, channel_pkgs,
                 solver_decision, job, relink_k, relink_pc >>

\* PrefixData::sorted_records
VARIABLES
    m_package_records,  \* name -> the names of the depends of the record of that name
    dep_nodes,          \* the nodes of dep_graph in the order of their ids
    dep_edges,          \* the edges of dep_graph, as pairs <<from, to>>
    sorted,             \* the vector sorted
    sort_pc             \* position of sorted_records

sort_vars == << m_package_records, dep_nodes, dep_edges, sorted, sort_pc >>

\* conflict_map<std::size_t>
VARIABLES
    cmap,               \* the map: key -> the set of the keys in conflict with it
    cmap_before,        \* the map before the last operation
    cmap_call,          \* the last operation and its arguments
    cmap_ret            \* what the last operation returned

cmap_vars == << cmap, cmap_before, cmap_call, cmap_ret >>

\* solv::ObjPool: strings and repos
VARIABLES
    pool_strings,       \* the interned strings; the id of a string is its position
    pool_repos,         \* the repos; the id of a repo is its position
    pool_before,        \* the strings and the repos before the last call
    pool_added,         \* the strings add_string has been called with
    pool_call           \* the last call, its argument and what it returned

pool_vars == << pool_strings, pool_repos, pool_before, pool_added, pool_call >>

\* the what-provides index of a pool
VARIABLES
    wp_solvables,       \* the solvables of the pool, each with the name of its repo
    whatprovides,       \* the index: whether it is created, and the solvables it holds
    wp_user,            \* who uses the pool: "api", or the constructor running
    wp_pc,              \* position of the constructor
    wp_packages,        \* the packages the constructor is given
    wp_specs,           \* specs_to_remove of the constructor
    wp_k,               \* index of the loop over specs_to_remove
    wp_query            \* the last query of the index and what it visited

wp_vars == << wp_solvables, whatprovides, wp_user, wp_pc, wp_packages, wp_specs, wp_k,
             wp_query >>

\* PackageDownloadExtractTarget::extract of two targets
VARIABLES
    ex_dir,             \* per target: what the directory at extract_path holds
    ex_tmp,             \* per target: the tree in the temporary sibling directory
    ex_pc,              \* per target: position in extract()
    ex_stmt,            \* per target: index of the statement of the try block
    ex_url_pc,          \* per target: position in add_url()
    urls_txt,           \* <cache>/urls.txt: the targets whose url was appended
    urls_txt_mutex      \* the target that holds urls_txt_mutex, 0 when free

ex_vars == << ex_dir, ex_tmp, ex_pc, ex_stmt, ex_url_pc, urls_txt, urls_txt_mutex >>

\* PrefixData over the files of <prefix>/conda-meta
VARIABLES
    meta_files,         \* the directory entries, in the order of the iteration
    m_records,          \* m_package_records, as the set of its records
    m_records_before,   \* m_package_records before the last insertion
    prefix_call,        \* the last call that inserted records, and the records given
    prefix_k,           \* position of the directory iterator
    prefix_pc           \* position of PrefixData::create

prefix_vars == << meta_files, m_records, m_records_before, prefix_call, prefix_k,
                 prefix_pc >>

late_vars == << ex_vars, prefix_vars >>

\* the variables of the operations outside MTransaction::execute, the
\* constructors of explicit specs, the package cache and validate
more_vars == << relink_vars, sort_vars, cmap_vars, pool_vars, wp_vars, late_vars >>

\* the variables of the specifications of single operations
unit_vars == << ctor_vars, cache_vars, val_vars, more_vars >>

vars == << tx_vars, unit_vars >>

\* --------------------------------------------------------------- the plan
\* transaction_type of a step that replaces installed package s by t
ChangeType(s, t) ==
    IF Version(s) < Version(t) THEN "UPGRADED"
    ELSE IF Version(s) > Version(t) THEN "DOWNGRADED"
    ELSE "REINSTALLED"

\* the steps a solved transaction can hold for name n when inst is installed
StepsFor(n, inst) ==
    LET cur == {p \in inst : Name(p) = n} IN
    IF cur = {}
    THEN {[ttype |-> "INSTALL", s |-> <<n, v>>, obs |-> <<n, v>>] : v \in Versions}
    ELSE UNION {
            {[ttype |-> "ERASE", s |-> p, obs |-> p],
             [ttype |-> "IGNORE", s |-> p, obs |-> p]}
            \cup {[ttype |-> ChangeType(p, <<n, v>>), s |-> p, obs |-> <<n, v>>] : v \in Versions}
         : p \in cur}

RECURSIVE PlansOver(_, _)
PlansOver(S, inst) ==
    {<< >>} \cup
    UNION {{<<st>> \o rest : st \in StepsFor(n, inst), rest \in PlansOver(S \ {n}, inst)} : n \in S}

\* prefixes: at most one installed package per name (the installed one is
\* version 1; a step can reinstall it or move it to any version)
Prefixes == SUBSET {p \in Pkgs : Version(p) = 1}

\* ------------------------------------------------------------ MTransaction
filter_inverted(ftype, fnames, s) ==
    IF ftype = "none" THEN FALSE
    ELSE IF ftype = "keep_only" THEN Name(s) \notin fnames
    ELSE Name(s) \in fnames

\* MTransaction::filter: TRUE when the step of solvable s is left out
filter(ftype, fnames, s) ==
    IF ftype = "none" THEN FALSE
    ELSE IF ftype = "keep_only" THEN Name(s) \in fnames
    ELSE Name(s) \notin fnames

\* MTransaction::init over the first n steps (the loop stops when interrupted)
RECURSIVE init_to_install(_, _, _, _)
init_to_install(st, n, ftype, fnames) ==
    IF n = 0 THEN << >>
    ELSE LET rest == init_to_install(st, n - 1, ftype, fnames)
             x == st[n]
         IN IF filter(ftype, fnames, x.s) THEN rest
            ELSE IF x.ttype \in ChangeTypes THEN Append(rest, x.obs)
            ELSE IF x.ttype = "INSTALL" THEN Append(rest, x.s)
            ELSE rest

RECURSIVE init_to_remove(_, _, _, _)
init_to_remove(st, n, ftype, fnames) ==
    IF n = 0 THEN << >>
    ELSE LET rest == init_to_remove(st, n - 1, ftype, fnames)
             x == st[n]
         IN IF filter(ftype, fnames, x.s) THEN rest
            ELSE IF x.ttype \in ChangeTypes \cup {"ERASE"} THEN Append(rest, x.s)
            ELSE rest

empty == Len(m_to_install) = 0 /\ Len(m_to_remove) = 0

Range(seq) == {seq[k] : k \in DOMAIN seq}

\* ------------------------------------------------ LinkPackage, UnlinkPackage
LinkPackage_execute(meta, p) == meta \cup {p}
LinkPackage_undo(meta, p) == meta \ {p}
UnlinkPackage_execute(meta, p) == meta \ {p}
UnlinkPackage_undo(meta, p) == meta \cup {p}

\* ------------------------------------------------------ TransactionRollback
RECURSIVE undo_links(_, _)
undo_links(meta, stack) ==
    IF stack = << >> THEN meta
    ELSE undo_links(LinkPackage_undo(meta, stack[Len(stack)]), SubSeq(stack, 1, Len(stack) - 1))

RECURSIVE undo_unlinks(_, _)
undo_unlinks(meta, stack) ==
    IF stack = << >> THEN meta
    ELSE undo_unlinks(UnlinkPackage_undo(meta, stack[Len(stack)]), SubSeq(stack, 1, Len(stack) - 1))

rollback_links_only(meta, lstack, ustack) == undo_links(meta, lstack)

rollback(meta, lstack, ustack) == undo_unlinks(undo_links(meta, lstack), ustack)

RECURSIVE undo_log(_, _)
undo_log(kind, stack) ==
    IF stack = << >> THEN << >>
    ELSE <<[op |-> kind, pkg |-> stack[Len(stack)]]>>
         \o undo_log(kind, SubSeq(stack, 1, Len(stack) - 1))

\* the order in which rollback() calls undo
rollback_log(lstack, ustack) == undo_log("undo_link", lstack) \o undo_log("undo_unlink", ustack)

\* ------------------------------------------------------------------- Init
\* if (solver.no_deps || solver.only_deps)
\*     m_filter_type = solver.only_deps ? keep_only : ignore;
filter_type(no_deps, only_deps) ==
    IF no_deps \/ only_deps
    THEN (IF only_deps THEN "keep_only" ELSE "ignore")
    ELSE "none"

\* the filters the constructor sets for the flags of the solver: no filter,
\* or only_deps / no_deps with the one requested spec "a" (the plans range
\* over both names, so each name is filtered in some plan)
FilterChoices ==
    {<< filter_type(no_deps, only_deps), IF no_deps \/ only_deps THEN {"a"} ELSE {} >> :
        no_deps \in BOOLEAN, only_deps \in BOOLEAN}

\* execute has not started
ExecuteIdle ==
    /\ sig_interrupted = FALSE
    /\ lock = "free"
    /\ other = "out"
    /\ pc = "start"
    /\ result = "none"
    /\ targets = << >>
    /\ semaphore = 0
    /\ i = 1
    /\ m_link_stack = << >>
    /\ m_unlink_stack = << >>
    /\ m_history_entry = [link_dists |-> << >>, unlink_dists |-> << >>]
    /\ history = << >>
    /\ pyc_running = FALSE
    /\ ops = << >>

\* no constructor of explicit specs runs
CtorIdle ==
    /\ specs_to_remove = << >>
    /\ specs_to_install = << >>
    /\ not_found = << >>
    /\ decision = << >>
    /\ ctor_pc = "idle"
    /\ ctor_k = 1
    /\ what = << >>

\* no single target is followed
CacheIdle ==
    /\ caches = << >>
    /\ m_cache_path = 0
    /\ m_tarball_path = 0
    /\ extract_path = 0
    /\ t_case = "none"
    /\ cache_pc = "idle"

\* validate does not run
ValidateIdle ==
    /\ m_expected_size = 0
    /\ downloaded_size = 0
    /\ m_sha256 = ""
    /\ sha256sum = ""
    /\ m_md5 = ""
    /\ md5sum = ""
    /\ m_validation_result = "UNDEFINED"
    /\ val_pc = "idle"

\* no constructor relinks
RelinkIdle ==
    /\ relink_noarch = FALSE
    /\ installed_repo = FALSE
    /\ noarch_python = {}
    /\ channel_pkgs = {}
    /\ solver_decision = << >>
    /\ job = << >>
    /\ relink_k = 1
    /\ relink_pc = "idle"

\* sorted_records does not run
SortIdle ==
    /\ m_package_records = << >>
    /\ dep_nodes = << >>
    /\ dep_edges = {}
    /\ sorted = << >>
    /\ sort_pc = "idle"

\* no conflict_map is used
ConflictIdle ==
    /\ cmap = << >>
    /\ cmap_before = << >>
    /\ cmap_call = [op |-> "none", a |-> 0, b |-> 0]
    /\ cmap_ret = FALSE

\* a pool just constructed
PoolIdle ==
    /\ pool_strings = << >>
    /\ pool_repos = << >>
    /\ pool_before = [strings |-> << >>, repos |-> << >>]
    /\ pool_added = {}
    /\ pool_call = [op |-> "none", name |-> "", id |-> 0, reuse_ids |-> FALSE,
                    ret |-> 0, ok |-> FALSE]

NoQuery == [op |-> "none", dep |-> [name |-> "a", version |-> 0], threw |-> FALSE,
            visited |-> {}]

\* no index is followed
ProvidesIdle ==
    /\ wp_solvables = {}
    /\ whatprovides = [created |-> FALSE, index |-> {}]
    /\ wp_user = "none"
    /\ wp_pc = "idle"
    /\ wp_packages = {}
    /\ wp_specs = << >>
    /\ wp_k = 1
    /\ wp_query = NoQuery

ExTargets == {1, 2}

\* no extract() runs
ExtractIdle ==
    /\ ex_dir = [t \in ExTargets |-> [tree |-> "none", record |-> "none"]]
    /\ ex_tmp = [t \in ExTargets |-> "none"]
    /\ ex_pc = [t \in ExTargets |-> "idle"]
    /\ ex_stmt = [t \in ExTargets |-> 1]
    /\ ex_url_pc = [t \in ExTargets |-> "out"]
    /\ urls_txt = << >>
    /\ urls_txt_mutex = 0

\* no PrefixData is loaded
PrefixIdle ==
    /\ meta_files = << >>
    /\ m_records = {}
    /\ m_records_before = {}
    /\ prefix_call = [op |-> "none", packages |-> << >>]
    /\ prefix_k = 1
    /\ prefix_pc = "idle"

LateIdle == ExtractIdle /\ PrefixIdle

MoreIdle == RelinkIdle /\ SortIdle /\ ConflictIdle /\ PoolIdle /\ ProvidesIdle /\ LateIdle

\* no transaction is executed: an empty transaction on an empty prefix
TransactionIdle ==
    /\ conda_meta0 = {}
    /\ conda_meta = {}
    /\ steps = << >>
    /\ m_filter_type = "none"
    /\ m_filter_name_ids = {}
    /\ m_to_install = << >>
    /\ m_to_remove = << >>
    /\ ctx = [dry_run |-> FALSE, download_only |-> FALSE, extract_threads |-> 1]
    /\ extracted = {}
    /\ tarballs = {}
    /\ ExecuteIdle

\* a transaction made from a solved solver, about to be executed
Init ==
    /\ conda_meta0 \in Prefixes
    /\ conda_meta = conda_meta0
    /\ steps \in PlansOver(Names, conda_meta0)
    /\ \E fc \in FilterChoices : m_filter_type = fc[1] /\ m_filter_name_ids = fc[2]
    /\ m_to_install = init_to_install(steps, Len(steps), m_filter_type, m_filter_name_ids)
    /\ m_to_remove = init_to_remove(steps, Len(steps), m_filter_type, m_filter_name_ids)
    /\ ctx \in [dry_run : BOOLEAN, download_only : BOOLEAN,
                extract_threads : 1 .. MaxExtractThreads]
    /\ extracted \in SUBSET Range(m_to_install)
    /\ tarballs \in SUBSET (Range(m_to_install) \ extracted)
    /\ ExecuteIdle
    /\ CtorIdle
    /\ CacheIdle
    /\ ValidateIdle
    /\ MoreIdle

\* ------------------------------------------------------------ environment
\* SIGINT / SIGTERM raises the interruption flag; it stays raised
Interrupt ==
    /\ ~sig_interrupted
    /\ pc # "done"
    /\ sig_interrupted' = TRUE
    /\ UNCHANGED << unit_vars, ctx, steps, m_filter_type, m_filter_name_ids, m_to_install, m_to_remove,
                    conda_meta, conda_meta0, extracted, tarballs, lock, other, pc, result,
                    targets, semaphore, i, m_link_stack, m_unlink_stack, m_history_entry,
                    history, pyc_running, ops >>

\* LockFile: the lock is granted when nobody holds it
LockFile_acquire(lk, who) == IF lk = "free" THEN who ELSE lk

lf_leaked(lk) == lk

\* the LockFile lf of execute is destroyed when execute's scope is left
lf_scope_exit(lk) == IF lk = "self" THEN "free" ELSE lk

\* another transaction on the same prefix takes and releases the lock
OtherAcquire ==
    /\ other = "out"
    /\ pc # "done"
    /\ lock = "free"
    /\ lock' = LockFile_acquire(lock, "other")
    /\ other' = "in"
    /\ UNCHANGED << unit_vars, ctx, steps, m_filter_type, m_filter_name_ids, m_to_install, m_to_remove,
                    conda_meta, conda_meta0, extracted, tarballs, sig_interrupted, pc, result,
                    targets, semaphore, i, m_link_stack, m_unlink_stack, m_history_entry,
                    history, pyc_running, ops >>

OtherRelease ==
    /\ other = "in"
    /\ lock' = "free"
    /\ other' = "out"
    /\ UNCHANGED << unit_vars, ctx, steps, m_filter_type, m_filter_name_ids, m_to_install, m_to_remove,
                    conda_meta, conda_meta0, extracted, tarballs, sig_interrupted, pc, result,
                    targets, semaphore, i, m_link_stack, m_unlink_stack, m_history_entry,
                    history, pyc_running, ops >>

\* --------------------------------------------------- MTransaction::execute
\* execute ends: by return (r = "true" or "false") or by an exception
Leave(r) ==
    /\ pc' = "done"
    /\ result' = r
    /\ lock' = lf_scope_exit(lock)

dry_run_ignored(c) == FALSE

\* if (ctx.dry_run) return true;
dry_run_return(c) == c.dry_run

ExecuteDryRun ==
    /\ pc = "start"
    /\ dry_run_return(ctx)
    /\ pc' = "done"
    /\ result' = "true"
    /\ UNCHANGED << unit_vars, ctx, steps, m_filter_type, m_filter_name_ids, m_to_install, m_to_remove,
                    conda_meta, conda_meta0, extracted, tarballs, sig_interrupted, lock, other,
                    targets, semaphore, i, m_link_stack, m_unlink_stack, m_history_entry,
                    history, pyc_running, ops >>

set_max_one_more(value) == value + 1

\* DownloadExtractSemaphore::set_max(ctx.threads_params.extract_threads): the
\* number of permits of the semaphore
set_max(value) == value

\* LockFile(prefix / "conda-meta"), clean_trash_files, then the head of
\* fetch_extract_packages: DownloadExtractSemaphore::set_max
ExecuteLock ==
    /\ pc = "start"
    /\ ~dry_run_return(ctx)
    /\ IF LockFile_acquire(lock, "self") = "self"
       THEN /\ lock' = "self"
            /\ pc' = "targets"
            /\ result' = result
            /\ semaphore' = set_max(ctx.extract_threads)
       ELSE /\ Leave("exception")
            /\ semaphore' = semaphore
    /\ UNCHANGED << unit_vars, ctx, steps, m_filter_type, m_filter_name_ids, m_to_install, m_to_remove,
                    conda_meta, conda_meta0, extracted, tarballs, sig_interrupted, other,
                    targets, i, m_link_stack, m_unlink_stack, m_history_entry,
                    history, pyc_running, ops >>

\* ------------------------------------------- PackageDownloadExtractTarget
target_always_download(p, ex, tb) ==
    IF p \in ex
    THEN [case |-> "extracted", st |-> "cached", m_finished |-> TRUE,
          m_validation_result |-> "UNDEFINED", http_status |-> 0]
    ELSE [case |-> "download", st |-> "dl", m_finished |-> FALSE,
          m_validation_result |-> "UNDEFINED", http_status |-> 0]

\* PackageDownloadExtractTarget::target: the three cases
target(p, ex, tb) ==
    IF p \in ex
    THEN [case |-> "extracted", st |-> "cached", m_finished |-> TRUE,
          m_validation_result |-> "UNDEFINED", http_status |-> 0]
    ELSE IF p \in tb
    THEN [case |-> "tarball", st |-> "extract_sched", m_finished |-> FALSE,
          m_validation_result |-> "VALID", http_status |-> 0]
    ELSE [case |-> "download", st |-> "dl", m_finished |-> FALSE,
          m_validation_result |-> "UNDEFINED", http_status |-> 0]

download_failed_never(status) == FALSE

\* finalize_callback's test of the HTTP status
download_failed(status) == status >= 400

\* MultiDownloadTarget::download with MAMBA_DOWNLOAD_FAILFAST: a transfer whose
\* finalize callback returns false is fatal, download raises
failfast_raises(finalize_ok) == ~finalize_ok

HttpStatuses == {200, 404}

\* fetch_extract_packages: the loop over m_to_install that creates the targets
FetchTarget ==
    /\ pc = "targets"
    /\ Len(targets) < Len(m_to_install)
    /\ targets' = Append(targets, target(m_to_install[Len(targets) + 1], extracted, tarballs))
    /\ UNCHANGED << unit_vars, ctx, steps, m_filter_type, m_filter_name_ids, m_to_install, m_to_remove,
                    conda_meta, conda_meta0, extracted, tarballs, sig_interrupted, lock, other,
                    pc, result, semaphore, i, m_link_stack, m_unlink_stack, m_history_entry,
                    history, pyc_running, ops >>

\* multi_dl.download(MAMBA_DOWNLOAD_FAILFAST | MAMBA_DOWNLOAD_SORT) is entered
DownloadStart ==
    /\ pc = "targets"
    /\ Len(targets) = Len(m_to_install)
    /\ pc' = "download"
    /\ UNCHANGED << unit_vars, ctx, steps, m_filter_type, m_filter_name_ids, m_to_install, m_to_remove,
                    conda_meta, conda_meta0, extracted, tarballs, sig_interrupted, lock, other,
                    result, targets, semaphore, i, m_link_stack, m_unlink_stack,
                    m_history_entry, history, pyc_running, ops >>

\* a transfer ends, leaving its file at m_tarball_path, and finalize_callback
\* runs; with FAILFAST a failed finalize makes download raise
DownloadFinalize(k) ==
    /\ pc = "download"
    /\ targets[k].st = "dl"
    /\ \E status \in HttpStatuses :
         IF failfast_raises(~download_failed(status))
         THEN /\ targets' = [targets EXCEPT ![k].st = "dl_failed",
                                            ![k].http_status = status,
                                            ![k].m_validation_result = "UNDEFINED"]
              /\ Leave("exception")
              /\ UNCHANGED tarballs
         ELSE /\ targets' = [targets EXCEPT ![k].st = "ve_sched",
                                            ![k].http_status = status]
              /\ tarballs' = tarballs \cup {m_to_install[k]}
              /\ UNCHANGED << pc, result, lock >>
    /\ UNCHANGED << unit_vars, ctx, steps, m_filter_type, m_filter_name_ids, m_to_install, m_to_remove,
                    conda_meta, conda_meta0, extracted, sig_interrupted, other,
                    semaphore, i, m_link_stack, m_unlink_stack, m_history_entry,
                    history, pyc_running, ops >>

download_only_ignored(c) == FALSE

\* if (ctx.download_only) return true;
download_only_return(c) == c.download_only

\* fetch_extract_packages has returned (execute does not look at its value):
\* with download_only execute returns true, else it enters the loop
AfterFetch ==
    IF download_only_return(ctx)
    THEN Leave("true")
    ELSE /\ pc' = "loop"
         /\ UNCHANGED << result, lock >>

\* download is interrupted with transfers in flight and returns false:
\* "Download didn't finish!", fetch_extract_packages returns false, which
\* execute does not look at
DownloadInterrupted ==
    /\ pc = "download"
    /\ sig_interrupted
    /\ \E k \in DOMAIN targets : targets[k].st = "dl"
    /\ AfterFetch
    /\ UNCHANGED << unit_vars, ctx, steps, m_filter_type, m_filter_name_ids, m_to_install, m_to_remove,
                    conda_meta, conda_meta0, extracted, tarballs, sig_interrupted, other,
                    targets, semaphore, i, m_link_stack, m_unlink_stack,
                    m_history_entry, history, pyc_running, ops >>

\* every transfer is finalized: download returns true
DownloadReturn ==
    /\ pc = "download"
    /\ \A k \in DOMAIN targets : targets[k].st # "dl"
    /\ pc' = "wait"
    /\ UNCHANGED << unit_vars, ctx, steps, m_filter_type, m_filter_name_ids, m_to_install, m_to_remove,
                    conda_meta, conda_meta0, extracted, tarballs, sig_interrupted, lock, other,
                    result, targets, semaphore, i, m_link_stack, m_unlink_stack,
                    m_history_entry, history, pyc_running, ops >>

all_finished_no_wait(ts) == TRUE

\* the test of the loop that waits for the targets
all_finished(ts) == \A k \in DOMAIN ts : ts[k].m_finished

\* while (!is_sig_interrupted()) { ... if (all_finished) break; sleep }
WaitTargets ==
    /\ pc = "wait"
    /\ sig_interrupted \/ all_finished(targets)
    /\ pc' = "check"
    /\ UNCHANGED << unit_vars, ctx, steps, m_filter_type, m_filter_name_ids, m_to_install, m_to_remove,
                    conda_meta, conda_meta0, extracted, tarballs, sig_interrupted, lock, other,
                    result, targets, semaphore, i, m_link_stack, m_unlink_stack,
                    m_history_entry, history, pyc_running, ops >>

\* the test of the loop that looks for an incorrect download
incorrect(t) == t.m_validation_result # "VALID" /\ t.m_validation_result # "UNDEFINED"

\* the first incorrect target is cleared from the cache and execute ends
\* with "Found incorrect download"
CheckTargets ==
    /\ pc = "check"
    /\ LET bad == {k \in DOMAIN targets : incorrect(targets[k])} IN
       IF bad # {}
       THEN LET k == CHOOSE x \in bad : \A y \in bad : x <= y IN
            /\ tarballs' = tarballs \ {m_to_install[k]}
            /\ extracted' = extracted \ {m_to_install[k]}
            /\ Leave("exception")
       ELSE /\ AfterFetch
            /\ UNCHANGED << tarballs, extracted >>
    /\ UNCHANGED << unit_vars, ctx, steps, m_filter_type, m_filter_name_ids, m_to_install, m_to_remove,
                    conda_meta, conda_meta0, sig_interrupted, other,
                    targets, semaphore, i, m_link_stack, m_unlink_stack,
                    m_history_entry, history, pyc_running, ops >>

\* ------------------------------------------------ tasks of the MainExecutor
WorkerFrame ==
    UNCHANGED << unit_vars, ctx, steps, m_filter_type, m_filter_name_ids, m_to_install, m_to_remove,
                 conda_meta, conda_meta0, sig_interrupted, lock, other, pc, result,
                 i, m_link_stack, m_unlink_stack, m_history_entry, history, pyc_running, ops >>

ValidationResults == {"VALID", "SIZE_ERROR", "SHA256_ERROR", "MD5SUM_ERROR"}

extract_after_any(r) == TRUE

\* validate_extract goes on to extract() only when validate() gave VALID
extract_after(r) == r = "VALID"

finished_on_abort_never(r) == FALSE

\* validate_extract, when the validation failed: "abort here, but set
\* finished to true"
finished_on_abort(r) == r # "VALID"

\* validate_extract up to the call of extract; validate gets past its
\* interruption_point(), which follows the size test, only with the flag down
ValidateExtract(k) ==
    /\ targets[k].st = "ve_sched"
    /\ \E r \in ValidationResults :
         /\ r = "SIZE_ERROR" \/ ~sig_interrupted
         /\ targets' = [targets EXCEPT ![k].m_validation_result = r,
                                    ![k].m_finished = finished_on_abort(r),
                                    ![k].st = IF extract_after(r) THEN "validated" ELSE "done"]
    /\ UNCHANGED << extracted, tarballs, semaphore >>
    /\ WorkerFrame

\* interruption_point() raises in validate (after the size test) or at the
\* head of extract: the task ends without setting m_finished
TaskInterrupted(k) ==
    /\ sig_interrupted
    /\ targets[k].st \in {"ve_sched", "validated", "extract_sched"}
    /\ targets' = [targets EXCEPT ![k].st = "aborted",
                                  ![k].m_validation_result = "VALID"]
    /\ UNCHANGED << extracted, tarballs, semaphore >>
    /\ WorkerFrame

\* extract: the semaphore is taken
ExtractAcquire(k) ==
    /\ targets[k].st \in {"validated", "extract_sched"}
    /\ ~sig_interrupted
    /\ semaphore > 0
    /\ semaphore' = semaphore - 1
    /\ targets' = [targets EXCEPT ![k].st = "in_sem"]
    /\ UNCHANGED << extracted, tarballs >>
    /\ WorkerFrame

\* extract: the archive is extracted, interruption_point() is passed, the
\* record and the url are written
ExtractDone(k) ==
    /\ targets[k].st = "in_sem"
    /\ ~sig_interrupted
    /\ semaphore' = semaphore + 1
    /\ targets' = [targets EXCEPT ![k].st = "done", ![k].m_finished = TRUE]
    /\ extracted' = extracted \cup {m_to_install[k]}
    /\ UNCHANGED tarballs
    /\ WorkerFrame

\* extract: an exception inside the try block (an extraction error, or the
\* interruption raised by the interruption_point() that follows extraction)
ExtractFailed(k) ==
    /\ targets[k].st = "in_sem"
    /\ semaphore' = semaphore + 1
    /\ targets' = [targets EXCEPT ![k].st = "done", ![k].m_finished = TRUE,
                                  ![k].m_validation_result = "EXTRACT_ERROR"]
    /\ extracted' = extracted \ {m_to_install[k]}
    /\ UNCHANGED tarballs
    /\ WorkerFrame

\* extract: interruption_point() raises right after the semaphore is taken
ExtractInterrupted(k) ==
    /\ targets[k].st = "in_sem"
    /\ sig_interrupted
    /\ semaphore' = semaphore + 1
    /\ targets' = [targets EXCEPT ![k].st = "aborted"]
    /\ UNCHANGED << extracted, tarballs >>
    /\ WorkerFrame

\* ------------------------------------------- execute: the transaction loop
step_ops_link_first(x) ==
    IF x.ttype \in ChangeTypes
    THEN << [op |-> "link", pkg |-> x.obs], [op |-> "unlink", pkg |-> x.s] >>
    ELSE IF x.ttype = "ERASE" THEN << [op |-> "unlink", pkg |-> x.s] >>
    ELSE IF x.ttype = "INSTALL" THEN << [op |-> "link", pkg |-> x.s] >>
    ELSE << >>

\* the operations the switch of the loop runs for one step, in order
step_ops(x) ==
    IF x.ttype \in ChangeTypes
    THEN << [op |-> "unlink", pkg |-> x.s], [op |-> "link", pkg |-> x.obs] >>
    ELSE IF x.ttype = "ERASE" THEN << [op |-> "unlink", pkg |-> x.s] >>
    ELSE IF x.ttype = "INSTALL" THEN << [op |-> "link", pkg |-> x.s] >>
    ELSE << >>

loop_body_unfiltered(x, ftype, fnames) == step_ops(x)

\* the operations of step x, or none when the step is filtered
loop_body(x, ftype, fnames) == IF filter(ftype, fnames, x.s) THEN << >> ELSE step_ops(x)

\* up.execute() / lp.execute() followed by rollback.record(...)
RECURSIVE run_meta(_, _, _)
run_meta(meta, os, n) ==
    IF n = 0 THEN meta
    ELSE LET m == run_meta(meta, os, n - 1) IN
         IF os[n].op = "link" THEN LinkPackage_execute(m, os[n].pkg)
         ELSE UnlinkPackage_execute(m, os[n].pkg)

OfKind(os, kind) == SelectSeq(os, LAMBDA o : o.op = kind)
PkgsOf(os) == [k \in DOMAIN os |-> os[k].pkg]

\* one iteration of the loop; an operation may raise an I/O error, which
\* leaves execute at once (nothing catches it, rollback() is not called)
ExecStep ==
    /\ pc = "loop"
    /\ i <= Len(steps)
    /\ ~sig_interrupted
    /\ LET os == loop_body(steps[i], m_filter_type, m_filter_name_ids) IN
       \/ \* every operation of the step succeeds
          /\ conda_meta' = run_meta(conda_meta, os, Len(os))
          /\ m_link_stack' = m_link_stack \o PkgsOf(OfKind(os, "link"))
          /\ m_unlink_stack' = m_unlink_stack \o PkgsOf(OfKind(os, "unlink"))
          /\ m_history_entry' =
                [link_dists |-> m_history_entry.link_dists \o PkgsOf(OfKind(os, "link")),
                 unlink_dists |-> m_history_entry.unlink_dists \o PkgsOf(OfKind(os, "unlink"))]
          /\ ops' = ops \o os
          /\ pyc_running' \in (IF OfKind(os, "link") # << >> THEN {pyc_running, TRUE}
                               ELSE {pyc_running})
          /\ i' = i + 1
          /\ UNCHANGED << pc, result, lock >>
       \/ \* operation f of the step raises
          \E f \in DOMAIN os :
            /\ conda_meta' = run_meta(conda_meta, os, f - 1)
            /\ m_link_stack' = m_link_stack \o PkgsOf(OfKind(SubSeq(os, 1, f - 1), "link"))
            /\ m_unlink_stack' = m_unlink_stack \o PkgsOf(OfKind(SubSeq(os, 1, f - 1), "unlink"))
            /\ ops' = ops \o SubSeq(os, 1, f - 1)
                          \o << [op |-> "failed_" \o os[f].op, pkg |-> os[f].pkg] >>
            /\ Leave("exception")
            /\ UNCHANGED << m_history_entry, pyc_running, i >>
    /\ UNCHANGED << unit_vars, ctx, steps, m_filter_type, m_filter_name_ids, m_to_install, m_to_remove,
                    conda_meta0, extracted, tarballs, sig_interrupted, other,
                    targets, semaphore, history >>

\* the loop ends: all steps done, or the flag is seen
LoopExit ==
    /\ pc = "loop"
    /\ i > Len(steps) \/ sig_interrupted
    /\ pc' = "post"
    /\ UNCHANGED << unit_vars, ctx, steps, m_filter_type, m_filter_name_ids, m_to_install, m_to_remove,
                    conda_meta, conda_meta0, extracted, tarballs, sig_interrupted, lock, other,
                    result, targets, semaphore, i, m_link_stack, m_unlink_stack,
                    m_history_entry, history, pyc_running, ops >>

read_interrupted_never(flag) == FALSE

\* bool interrupted = is_sig_interrupted();
read_interrupted(flag) == flag

\* if (interrupted) { rollback.rollback(); } ... return !interrupted;
ExecRollback ==
    /\ pc = "post"
    /\ read_interrupted(sig_interrupted)
    /\ conda_meta' = rollback(conda_meta, m_link_stack, m_unlink_stack)
    /\ ops' = ops \o rollback_log(m_link_stack, m_unlink_stack)
    /\ m_link_stack' = << >>
    /\ m_unlink_stack' = << >>
    /\ Leave("false")
    /\ UNCHANGED << unit_vars, ctx, steps, m_filter_type, m_filter_name_ids, m_to_install, m_to_remove,
                    conda_meta0, extracted, tarballs, sig_interrupted, other,
                    targets, semaphore, i, m_history_entry, history, pyc_running >>

\* else { m_transaction_context.wait_for_pyc_compilation(); ...
WaitPyc ==
    /\ pc = "post"
    /\ ~read_interrupted(sig_interrupted)
    /\ pyc_running' = FALSE
    /\ pc' = "history"
    /\ UNCHANGED << unit_vars, ctx, steps, m_filter_type, m_filter_name_ids, m_to_install, m_to_remove,
                    conda_meta, conda_meta0, extracted, tarballs, sig_interrupted, lock, other,
                    result, targets, semaphore, i, m_link_stack, m_unlink_stack,
                    m_history_entry, history, ops >>

\* ... prefix.history().add_entry(m_history_entry); } return !interrupted;
AddHistory ==
    /\ pc = "history"
    /\ history' = Append(history, m_history_entry)
    /\ Leave("true")
    /\ UNCHANGED << unit_vars, ctx, steps, m_filter_type, m_filter_name_ids, m_to_install, m_to_remove,
                    conda_meta, conda_meta0, extracted, tarballs, sig_interrupted, other,
                    targets, semaphore, i, m_link_stack, m_unlink_stack,
                    m_history_entry, pyc_running, ops >>

\* ------------------------------------------------------------------- Next
Worker ==
    \E k \in DOMAIN targets :
        \/ ValidateExtract(k)
        \/ TaskInterrupted(k)
        \/ ExtractAcquire(k)
        \/ ExtractDone(k)
        \/ ExtractFailed(k)
        \/ ExtractInterrupted(k)

Next ==
    \/ Interrupt
    \/ OtherAcquire
    \/ OtherRelease
    \/ ExecuteDryRun
    \/ ExecuteLock
    \/ FetchTarget
    \/ DownloadStart
    \/ \E k \in DOMAIN targets : DownloadFinalize(k)
    \/ DownloadInterrupted
    \/ DownloadReturn
    \/ WaitTargets
    \/ CheckTargets
    \/ Worker
    \/ ExecStep
    \/ LoopExit
    \/ ExecRollback
    \/ WaitPyc
    \/ AddHistory

Spec == Init /\ [][Next]_vars

\* ------------------------------------- fetch_extract_packages on its own
\* a download-only run of a transaction without filter: execute ends when
\* fetch_extract_packages does
FetchInit == Init /\ ~ctx.dry_run /\ ctx.download_only /\ m_filter_type = "none"

FetchNext ==
    \/ Interrupt
    \/ ExecuteLock
    \/ FetchTarget
    \/ DownloadStart
    \/ \E k \in DOMAIN targets : DownloadFinalize(k)
    \/ DownloadInterrupted
    \/ DownloadReturn
    \/ WaitTargets
    \/ CheckTargets
    \/ Worker

\* the thread of execute goes on when it can, and every task scheduled on
\* the MainExecutor is run: it validates, gets the semaphore when a permit
\* is free, and ends its extraction
FetchFairness ==
    /\ WF_vars(WaitTargets)
    /\ \A k \in 1 .. Cardinality(Names) :
          /\ WF_vars(k \in DOMAIN targets /\ ValidateExtract(k))
          /\ WF_vars(k \in DOMAIN targets /\ ExtractAcquire(k))
          /\ WF_vars(k \in DOMAIN targets /\ (ExtractDone(k) \/ ExtractFailed(k)))

FetchSpec == FetchInit /\ [][FetchNext]_vars /\ FetchFairness

\* ------- MTransaction(pool, specs_to_remove, specs_to_install, caches) and
\* ------- MTransaction(pool, packages, caches)
MaxRemoveSpecs == 3
MaxInstallSpecs == 2

RECURSIVE SeqsUpTo(_, _)
SeqsUpTo(S, n) ==
    IF n = 0 THEN {<< >>}
    ELSE LET shorter == SeqsUpTo(S, n - 1) IN
         shorter \cup {Append(q, x) : q \in {r \in shorter : Len(r) = n - 1}, x \in S}

\* a MatchSpec to remove: a name, and a version or 0 for any version
MatchSpecs == [name : Names, version : 0 .. 1]

\* pool_conda_matchspec, selection_solvables: the solvable provides the spec
match(ms, p) == Name(p) = ms.name /\ (ms.version = 0 \/ ms.version = Version(p))

\* a set of solvables in the order of their ids
RECURSIVE ToQueue(_)
ToQueue(S) ==
    IF S = {} THEN << >>
    ELSE LET p == CHOOSE x \in S : TRUE IN <<p>> \o ToQueue(S \ {p})

\* the solvables of the pool selected by a spec: those of the installed repo
\* and those of the repo __explicit_specs__, which is added before the loop
selection_solvables(inst, explicit, ms) ==
    [k \in DOMAIN ToQueue({p \in inst : match(ms, p)}) |->
        [repo |-> "installed", pkg |-> ToQueue({p \in inst : match(ms, p)})[k]]]
    \o SelectSeq([k \in DOMAIN explicit |-> [repo |-> "__explicit_specs__", pkg |-> explicit[k]]],
                 LAMBDA e : match(ms, e.pkg))

record_first_only(nf, ms) == IF nf = << >> THEN <<ms>> ELSE nf

\* not_found.push_back("\n - " + s.str())
record_not_found(nf, ms) == Append(nf, ms)

\* transaction_create_decisionq: the installed solvables decided negative are
\* erased, or replaced when a solvable of the same name is decided positive;
\* the solvables of other repos decided positive are installed
transaction_create_decisionq(inst, dec) ==
    LET pos == SelectSeq(dec, LAMBDA e : e.sign = "+" /\ e.repo # "installed")
        erased == {p \in inst : \E k \in DOMAIN dec :
                        dec[k] = [sign |-> "-", repo |-> "installed", pkg |-> p]}
        news(p) == {pos[k].pkg : k \in {j \in DOMAIN pos : Name(pos[j].pkg) = Name(p)}}
        best(p) == CHOOSE q \in news(p) : \A r \in news(p) : Version(r) <= Version(q)
        old(p) == IF news(p) = {} THEN [ttype |-> "ERASE", s |-> p, obs |-> p]
                  ELSE [ttype |-> ChangeType(p, best(p)), s |-> p, obs |-> best(p)]
        new(e) == IF \E p \in erased : Name(p) = Name(e.pkg)
                  THEN [ttype |-> "IGNORE", s |-> e.pkg, obs |-> e.pkg]
                  ELSE [ttype |-> "INSTALL", s |-> e.pkg, obs |-> e.pkg]
        olds == ToQueue(erased)
    IN [k \in DOMAIN olds |-> old(olds[k])] \o [k \in DOMAIN pos |-> new(pos[k])]

CtorInit ==
    /\ conda_meta0 \in Prefixes
    /\ conda_meta = conda_meta0
    /\ specs_to_remove \in SeqsUpTo(MatchSpecs, MaxRemoveSpecs)
    /\ specs_to_install \in SeqsUpTo(Pkgs, MaxInstallSpecs)
    /\ not_found = << >>
    /\ decision = << >>
    /\ ctor_pc = "remove_loop"
    /\ ctor_k = 1
    /\ what = << >>
    /\ steps = << >>
    /\ m_filter_type = "none"
    /\ m_filter_name_ids = {}
    /\ m_to_install = << >>
    /\ m_to_remove = << >>
    /\ ctx = [dry_run |-> FALSE, download_only |-> FALSE, extract_threads |-> 1]
    /\ extracted = {}
    /\ tarballs = {}
    /\ ExecuteIdle
    /\ CacheIdle
    /\ ValidateIdle
    /\ MoreIdle

CtorFrame ==
    UNCHANGED << ctx, m_filter_type, m_filter_name_ids, conda_meta, conda_meta0, extracted,
                 tarballs, sig_interrupted, lock, other, pc, result, targets, semaphore, i,
                 m_link_stack, m_unlink_stack, m_history_entry, history, pyc_running, ops,
                 specs_to_remove, specs_to_install, cache_vars, val_vars, more_vars >>

\* one iteration of the loop over specs_to_remove
CtorRemoveSpec ==
    /\ ctor_pc = "remove_loop"
    /\ ctor_k <= Len(specs_to_remove)
    /\ LET q == selection_solvables(conda_meta0, specs_to_install, specs_to_remove[ctor_k]) IN
        /\ not_found' = IF Len(q) = 0 THEN record_not_found(not_found, specs_to_remove[ctor_k])
                        ELSE not_found
        /\ decision' = decision \o [k \in DOMAIN q |->
                                        [sign |-> "-", repo |-> q[k].repo, pkg |-> q[k].pkg]]
    /\ ctor_k' = ctor_k + 1
    /\ UNCHANGED << ctor_pc, what, steps, m_to_install, m_to_remove >>
    /\ CtorFrame

\* if (!not_found.empty()) throw std::runtime_error("Could not find packages
\* to remove:" + join("", not_found))
CtorThrow ==
    /\ ctor_pc = "remove_loop"
    /\ ctor_k > Len(specs_to_remove)
    /\ not_found # << >>
    /\ what' = not_found
    /\ ctor_pc' = "thrown"
    /\ UNCHANGED << not_found, decision, ctor_k, steps, m_to_install, m_to_remove >>
    /\ CtorFrame

\* every solvable of __explicit_specs__ is decided positive, the transaction
\* is created from the decisions and init() derives to_install and to_remove
CtorCreate ==
    /\ ctor_pc = "remove_loop"
    /\ ctor_k > Len(specs_to_remove)
    /\ not_found = << >>
    /\ decision' = decision \o [k \in DOMAIN specs_to_install |->
                      [sign |-> "+", repo |-> "__explicit_specs__", pkg |-> specs_to_install[k]]]
    /\ steps' = transaction_create_decisionq(conda_meta0, decision')
    /\ m_to_install' = init_to_install(steps', Len(steps'), m_filter_type, m_filter_name_ids)
    /\ m_to_remove' = init_to_remove(steps', Len(steps'), m_filter_type, m_filter_name_ids)
    /\ ctor_pc' = "created"
    /\ UNCHANGED << not_found, ctor_k, what >>
    /\ CtorFrame

CtorNext ==
    \/ CtorRemoveSpec
    \/ CtorThrow
    \/ CtorCreate

CtorSpec == CtorInit /\ [][CtorNext]_vars

\* ------- MTransaction(pool, solver, caches): relink of noarch python packages
\* the installed solvables in the order of FOR_REPO_SOLVABLES
InstalledQueue == ToQueue(conda_meta0)

\* the decision queues a solved solver can hold: every installed solvable is
\* decided, kept (positive) or removed (negative), and the solvables of the
\* channels decided positive have names no kept solvable has, one per name
SolverDecisions(inst, chan) ==
    UNION {
        {[k \in DOMAIN ToQueue(inst) |->
              [sign |-> IF ToQueue(inst)[k] \in kept THEN "+" ELSE "-",
               repo |-> "installed", pkg |-> ToQueue(inst)[k]]]
         \o [k \in DOMAIN ToQueue(new) |->
                [sign |-> "+", repo |-> "channel", pkg |-> ToQueue(new)[k]]]
         : new \in {n \in SUBSET chan :
                       /\ \A x \in n, y \in n : Name(x) = Name(y) => x = y
                       /\ \A x \in n, y \in kept : Name(x) # Name(y)}}
        : kept \in SUBSET inst}

relink_scan_negated(dec, p) ==
    LET hits == {k \in DOMAIN dec : dec[k].repo = "installed" /\ dec[k].pkg = p}
        first == CHOOSE k \in hits : \A j \in hits : k <= j
    IN IF hits = {} THEN [decision |-> dec, skip_relink |-> FALSE]
       ELSE IF dec[first].sign = "+"
       THEN [decision |-> [dec EXCEPT ![first].sign = "-"], skip_relink |-> FALSE]
       ELSE [decision |-> dec, skip_relink |-> TRUE]

\* the loop over the decision queue for installed solvable p: the decision
\* that keeps p is erased; when p is already removed the relink is skipped
relink_scan(dec, p) ==
    LET hits == {k \in DOMAIN dec : dec[k].repo = "installed" /\ dec[k].pkg = p}
        first == CHOOSE k \in hits : \A j \in hits : k <= j
    IN IF hits = {} THEN [decision |-> dec, skip_relink |-> FALSE]
       ELSE IF dec[first].sign = "+"
       THEN [decision |-> SubSeq(dec, 1, first - 1) \o SubSeq(dec, first + 1, Len(dec)),
             skip_relink |-> FALSE]
       ELSE [decision |-> dec, skip_relink |-> TRUE]

\* selection_solvables(m_pool, job, q): the solvables that provide one of the
\* specs of job, those of the installed repo first
relink_selection(inst, chan, jb) ==
    LET sel(S, r) == [k \in DOMAIN ToQueue({p \in S : \E j \in DOMAIN jb : match(jb[j], p)}) |->
                        [repo |-> r,
                         pkg |-> ToQueue({p \in S : \E j \in DOMAIN jb : match(jb[j], p)})[k]]]
    IN sel(inst, "installed") \o sel(chan, "channel")

\* the position in q of its first solvable that is not of the installed
\* repo, or 0 when there is none (reinstall_id == -1)
reinstall_id(q) ==
    LET others == {k \in DOMAIN q : q[k].repo # "installed"} IN
    IF others = {} THEN 0
    ELSE CHOOSE k \in others : \A j \in others : k <= j

\* the constructor after m_transaction_context is set: the transaction of the
\* solver has been created and init() has run once
RelinkInit ==
    /\ installed_repo \in BOOLEAN
    /\ relink_noarch \in BOOLEAN
    /\ conda_meta0 \in (IF installed_repo THEN Prefixes ELSE {{}})
    /\ conda_meta = conda_meta0
    /\ noarch_python \in SUBSET conda_meta0
    /\ channel_pkgs \in SUBSET Pkgs
    /\ solver_decision \in SolverDecisions(conda_meta0, channel_pkgs)
    /\ \E fc \in FilterChoices : m_filter_type = fc[1] /\ m_filter_name_ids = fc[2]
    /\ steps = transaction_create_decisionq(conda_meta0, solver_decision)
    /\ m_to_install = init_to_install(steps, Len(steps), m_filter_type, m_filter_name_ids)
    /\ m_to_remove = init_to_remove(steps, Len(steps), m_filter_type, m_filter_name_ids)
    /\ decision = << >>
    /\ job = << >>
    /\ relink_k = 1
    /\ relink_pc = "guard"
    /\ specs_to_remove = << >>
    /\ specs_to_install = << >>
    /\ not_found = << >>
    /\ ctor_pc = "idle"
    /\ ctor_k = 1
    /\ what = << >>
    /\ ctx = [dry_run |-> FALSE, download_only |-> FALSE, extract_threads |-> 1]
    /\ extracted = {}
    /\ tarballs = {}
    /\ ExecuteIdle
    /\ CacheIdle
    /\ ValidateIdle
    /\ SortIdle
    /\ ConflictIdle
    /\ PoolIdle
    /\ ProvidesIdle
    /\ LateIdle

RelinkFrame ==
    UNCHANGED << ctx, m_filter_type, m_filter_name_ids, conda_meta, conda_meta0, extracted,
                 tarballs, sig_interrupted, lock, other, pc, result, targets, semaphore, i,
                 m_link_stack, m_unlink_stack, m_history_entry, history, pyc_running, ops,
                 specs_to_remove, specs_to_install, not_found, ctor_pc, ctor_k, what,
                 cache_vars, val_vars, late_vars, sort_vars, cmap_vars, pool_vars, wp_vars, relink_noarch,
                 installed_repo,
                 noarch_python, channel_pkgs, solver_decision >>

\* if (m_transaction_context.relink_noarch && pool_ptr->installed != nullptr)
\* is false: the transaction of the solver stays
RelinkSkip ==
    /\ relink_pc = "guard"
    /\ ~(relink_noarch /\ installed_repo)
    /\ relink_pc' = "done"
    /\ UNCHANGED << decision, job, relink_k, steps, m_to_install, m_to_remove >>
    /\ RelinkFrame

\* solver_get_decisionqueue(solver, decision.raw())
RelinkEnter ==
    /\ relink_pc = "guard"
    /\ relink_noarch /\ installed_repo
    /\ decision' = solver_decision
    /\ relink_pc' = "loop"
    /\ UNCHANGED << job, relink_k, steps, m_to_install, m_to_remove >>
    /\ RelinkFrame

\* one iteration of FOR_REPO_SOLVABLES(pool_ptr->installed, p, s)
RelinkSolvable ==
    /\ relink_pc = "loop"
    /\ relink_k <= Len(InstalledQueue)
    /\ LET p == InstalledQueue[relink_k]
           scan == relink_scan(decision, p)
           jb == Append(job, [name |-> Name(p), version |-> Version(p)])
           q == relink_selection(conda_meta0, channel_pkgs, jb)
           r == reinstall_id(q)
       IN IF p \notin noarch_python
          THEN UNCHANGED << decision, job >>
          ELSE IF scan.skip_relink
          THEN UNCHANGED << decision, job >>
          ELSE IF r = 0
          THEN decision' = scan.decision /\ job' = jb
          ELSE /\ decision' = scan.decision
                              \o << [sign |-> "+", repo |-> q[r].repo, pkg |-> q[r].pkg],
                                    [sign |-> "-", repo |-> "installed", pkg |-> p] >>
               /\ job' = << >>
    /\ relink_k' = relink_k + 1
    /\ UNCHANGED << relink_pc, steps, m_to_install, m_to_remove >>
    /\ RelinkFrame

\* transaction_free, transaction_create_decisionq, transaction_order, init()
RelinkCreate ==
    /\ relink_pc = "loop"
    /\ relink_k > Len(InstalledQueue)
    /\ steps' = transaction_create_decisionq(conda_meta0, decision)
    /\ m_to_install' = init_to_install(steps', Len(steps'), m_filter_type, m_filter_name_ids)
    /\ m_to_remove' = init_to_remove(steps', Len(steps'), m_filter_type, m_filter_name_ids)
    /\ relink_pc' = "done"
    /\ UNCHANGED << decision, job, relink_k >>
    /\ RelinkFrame

RelinkNext ==
    \/ RelinkSkip
    \/ RelinkEnter
    \/ RelinkSolvable
    \/ RelinkCreate

RelinkSpec == RelinkInit /\ [][RelinkNext]_vars

\* ---------------------------------------------- PrefixData::sorted_records
RecordNames == {"a", "b", "c"}

\* the orders in which the records of the unordered map can be iterated
RECURSIVE Orders(_)
Orders(S) ==
    IF S = {} THEN {<< >>}
    ELSE UNION {{<<x>> \o rest : rest \in Orders(S \ {x})} : x \in S}

add_edge_swapped(to_id, from_id) == <<from_id, to_id>>

\* dep_graph.add_edge(to_id, from_iter->second)
add_edge(to_id, from_id) == <<to_id, from_id>>

\* the edges added for the depends of the records: a dependency that names
\* no record is ignored
dependency_edges(records) ==
    UNION {{add_edge(n, d) : d \in records[n] \cap DOMAIN records} : n \in DOMAIN records}

\* the nodes topological_sort_for_each_node_id can visit next: those not
\* visited whose edges all lead to visited nodes
sort_ready(nodes, edges, done) ==
    {n \in Range(nodes) \ Range(done) :
        \A e \in edges : e[1] = n => e[2] \in Range(done)}

SortInit ==
    /\ \E S \in SUBSET RecordNames : m_package_records \in [S -> SUBSET RecordNames]
    /\ dep_nodes = << >>
    /\ dep_edges = {}
    /\ sorted = << >>
    /\ sort_pc = "nodes"
    /\ TransactionIdle
    /\ CtorIdle
    /\ CacheIdle
    /\ ValidateIdle
    /\ RelinkIdle
    /\ ConflictIdle
    /\ PoolIdle
    /\ ProvidesIdle
    /\ LateIdle

SortFrame == UNCHANGED << tx_vars, ctor_vars, cache_vars, val_vars, late_vars, relink_vars, cmap_vars,
                          pool_vars, wp_vars, m_package_records >>

\* for (const auto& [name, record] : records()) add_node(&record)
SortAddNodes ==
    /\ sort_pc = "nodes"
    /\ dep_nodes' \in Orders(DOMAIN m_package_records)
    /\ sort_pc' = "edges"
    /\ UNCHANGED << dep_edges, sorted >>
    /\ SortFrame

\* the loop over dep_graph.nodes() and the depends of each record
SortAddEdges ==
    /\ sort_pc = "edges"
    /\ dep_edges' = dependency_edges(m_package_records)
    /\ sort_pc' = "sort"
    /\ UNCHANGED << dep_nodes, sorted >>
    /\ SortFrame

\* topological_sort_for_each_node_id visits a node all of whose edges lead
\* to visited nodes
SortVisit ==
    /\ sort_pc = "sort"
    /\ \E n \in sort_ready(dep_nodes, dep_edges, sorted) : sorted' = Append(sorted, n)
    /\ UNCHANGED << dep_nodes, dep_edges, sort_pc >>
    /\ SortFrame

\* the nodes left are on a cycle or lead to one: the sort visits one of them
SortVisitCycle ==
    /\ sort_pc = "sort"
    /\ sort_ready(dep_nodes, dep_edges, sorted) = {}
    /\ \E n \in Range(dep_nodes) \ Range(sorted) : sorted' = Append(sorted, n)
    /\ UNCHANGED << dep_nodes, dep_edges, sort_pc >>
    /\ SortFrame

\* the sort ends when no node can be visited; return sorted
SortReturn ==
    /\ sort_pc = "sort"
    /\ sort_ready(dep_nodes, dep_edges, sorted) = {}
    /\ sort_pc' = "returned"
    /\ UNCHANGED << dep_nodes, dep_edges, sorted >>
    /\ SortFrame

SortNext ==
    \/ SortAddNodes
    \/ SortAddEdges
    \/ SortVisit
    \/ SortVisitCycle
    \/ SortReturn

SortSpec == SortInit /\ [][SortNext]_vars

\* -------------------------------------------------------- conflict_map<T>
MaxKey == 3
MaxPairs == 2

Keys == 1 .. MaxKey

\* has_conflict(a): a is a key of the map
has_conflict(c, a) == a \in DOMAIN c

\* in_conflict(a, b): a is a key and b is in its set
in_conflict(c, a, b) == a \in DOMAIN c /\ b \in c[a]

\* operator[](a).insert(b)
insert(c, a, b) ==
    [x \in DOMAIN c \cup {a} |-> IF x = a THEN (IF a \in DOMAIN c THEN c[a] ELSE {}) \cup {b}
                                 ELSE c[x]]

add_one_way(c, a, b) == [map |-> insert(c, a, b), ret |-> ~in_conflict(c, a, b)]

add_no_self(c, a, b) ==
    IF a = b THEN [map |-> c, ret |-> FALSE]
    ELSE [map |-> insert(insert(c, a, b), b, a), ret |-> ~in_conflict(c, a, b)]

\* add(a, b): b is inserted in the set of a and, when a # b, a in the set of
\* b; returns whether b was inserted
add(c, a, b) ==
    [map |-> IF a # b THEN insert(insert(c, a, b), b, a) ELSE insert(c, a, b),
     ret |-> ~in_conflict(c, a, b)]

\* b is erased from the set of a; a key whose set becomes empty is erased
remove_asym(c, a, b) ==
    IF a \notin DOMAIN c THEN [map |-> c, ret |-> FALSE]
    ELSE [map |-> IF c[a] \ {b} = {}
                  THEN [x \in DOMAIN c \ {a} |-> c[x]]
                  ELSE [c EXCEPT ![a] = c[a] \ {b}],
          ret |-> b \in c[a]]

remove_pair_one_way(c, a, b) == remove_asym(c, a, b)

\* remove(a, b): erases the pair in both directions; returns whether it was there
remove_pair(c, a, b) ==
    LET first == remove_asym(c, a, b)
        second == remove_asym(first.map, b, a)
    IN [map |-> second.map, ret |-> first.ret]

remove_key_only(c, a) ==
    [map |-> [x \in DOMAIN c \ {a} |-> c[x]], ret |-> a \in DOMAIN c]

RECURSIVE remove_all_asym(_, _, _)
remove_all_asym(c, S, a) ==
    IF S = {} THEN c
    ELSE LET b == CHOOSE x \in S : TRUE IN remove_all_asym(remove_asym(c, b, a).map, S \ {b}, a)

\* remove(a): a is erased from the set of every key in conflict with it, then
\* the key a is erased; returns whether a was a key
remove(c, a) ==
    IF a \notin DOMAIN c THEN [map |-> c, ret |-> FALSE]
    ELSE LET back == remove_all_asym(c, c[a] \ {a}, a) IN
         [map |-> [x \in DOMAIN back \ {a} |-> back[x]], ret |-> TRUE]

\* conflict_map(std::initializer_list<std::pair<T, T>>): every pair is added
RECURSIVE from_pairs(_)
from_pairs(pairs) ==
    IF pairs = << >> THEN << >>
    ELSE add(from_pairs(SubSeq(pairs, 1, Len(pairs) - 1)),
             pairs[Len(pairs)][1], pairs[Len(pairs)][2]).map

ConflictInit ==
    /\ \E pairs \in SeqsUpTo(Keys \X Keys, MaxPairs) :
        /\ cmap = from_pairs(pairs)
        /\ cmap_call = [op |-> "construct", a |-> Len(pairs), b |-> 0]
    /\ cmap_before = << >>
    /\ cmap_ret = FALSE
    /\ TransactionIdle
    /\ CtorIdle
    /\ CacheIdle
    /\ ValidateIdle
    /\ RelinkIdle
    /\ SortIdle
    /\ PoolIdle
    /\ ProvidesIdle
    /\ LateIdle

ConflictFrame == UNCHANGED << tx_vars, ctor_vars, cache_vars, val_vars, late_vars, relink_vars,
                              sort_vars, pool_vars, wp_vars >>

\* c.add(a, b)
ConflictAdd ==
    /\ cmap_call.op # "none"
    /\ \E a, b \in Keys :
        /\ cmap' = add(cmap, a, b).map
        /\ cmap_ret' = add(cmap, a, b).ret
        /\ cmap_call' = [op |-> "add", a |-> a, b |-> b]
    /\ cmap_before' = cmap
    /\ ConflictFrame

\* c.remove(a, b)
ConflictRemovePair ==
    /\ cmap_call.op # "none"
    /\ \E a, b \in Keys :
        /\ cmap' = remove_pair(cmap, a, b).map
        /\ cmap_ret' = remove_pair(cmap, a, b).ret
        /\ cmap_call' = [op |-> "remove_pair", a |-> a, b |-> b]
    /\ cmap_before' = cmap
    /\ ConflictFrame

\* c.remove(a)
ConflictRemove ==
    /\ cmap_call.op # "none"
    /\ \E a \in Keys :
        /\ cmap' = remove(cmap, a).map
        /\ cmap_ret' = remove(cmap, a).ret
        /\ cmap_call' = [op |-> "remove", a |-> a, b |-> 0]
    /\ cmap_before' = cmap
    /\ ConflictFrame

ConflictNext ==
    \/ ConflictAdd
    \/ ConflictRemovePair
    \/ ConflictRemove

ConflictSpec == ConflictInit /\ [][ConflictNext]_vars

\* ------------------------------------------------------------ solv::ObjPool
MaxRepos == 3

Strings == {"Hello", "World", "Bar"}
RepoNames == {"repo1", "repo2"}

\* find_string(s): the id of s, or 0 for no value
find_string(ss, s) ==
    IF \E k \in DOMAIN ss : ss[k] = s THEN CHOOSE k \in DOMAIN ss : ss[k] = s ELSE 0

\* get_string(id)
get_string(ss, id) == ss[id]

add_string_always_new(ss, s) == [strings |-> Append(ss, s), id |-> Len(ss) + 1]

\* add_string(s): the id of s, interned when it was not
add_string(ss, s) ==
    IF find_string(ss, s) # 0 THEN [strings |-> ss, id |-> find_string(ss, s)]
    ELSE [strings |-> Append(ss, s), id |-> Len(ss) + 1]

\* has_repo(id)
has_repo(rs, id) == id \in DOMAIN rs /\ rs[id].live

\* repo_count()
repo_count(rs) == Cardinality({id \in DOMAIN rs : rs[id].live})

add_repo_by_name(rs, name) ==
    IF \E id \in DOMAIN rs : rs[id].live /\ rs[id].name = name
    THEN [repos |-> rs, id |-> CHOOSE id \in DOMAIN rs : rs[id].live /\ rs[id].name = name]
    ELSE [repos |-> Append(rs, [name |-> name, live |-> TRUE]), id |-> Len(rs) + 1]

\* add_repo(name): a new repo after the last one
add_repo(rs, name) ==
    [repos |-> Append(rs, [name |-> name, live |-> TRUE]), id |-> Len(rs) + 1]

\* remove_repo(id, reuse_ids): false when id names no repo; the last repo
\* gives its id back when reuse_ids is set
remove_repo(rs, id, reuse_ids) ==
    IF ~has_repo(rs, id) THEN [repos |-> rs, ok |-> FALSE]
    ELSE IF id = Len(rs) /\ reuse_ids THEN [repos |-> SubSeq(rs, 1, Len(rs) - 1), ok |-> TRUE]
    ELSE [repos |-> [rs EXCEPT ![id].live = FALSE], ok |-> TRUE]

\* auto pool = ObjPool()
PoolInit ==
    /\ pool_strings = << >>
    /\ pool_repos = << >>
    /\ pool_before = [strings |-> << >>, repos |-> << >>]
    /\ pool_added = {}
    /\ pool_call = [op |-> "ObjPool", name |-> "", id |-> 0, reuse_ids |-> FALSE,
                    ret |-> 0, ok |-> FALSE]
    /\ TransactionIdle
    /\ CtorIdle
    /\ CacheIdle
    /\ ValidateIdle
    /\ RelinkIdle
    /\ SortIdle
    /\ ConflictIdle
    /\ ProvidesIdle
    /\ LateIdle

PoolFrame == UNCHANGED << tx_vars, ctor_vars, cache_vars, val_vars, late_vars, relink_vars, sort_vars,
                          cmap_vars, wp_vars >>

\* pool.add_string(s)
PoolAddString ==
    /\ pool_call.op # "none"
    /\ \E s \in Strings :
        /\ pool_strings' = add_string(pool_strings, s).strings
        /\ pool_added' = pool_added \cup {s}
        /\ pool_call' = [op |-> "add_string", name |-> s, id |-> 0, reuse_ids |-> FALSE,
                         ret |-> add_string(pool_strings, s).id, ok |-> TRUE]
    /\ pool_before' = [strings |-> pool_strings, repos |-> pool_repos]
    /\ UNCHANGED pool_repos
    /\ PoolFrame

\* pool.add_repo(name)
PoolAddRepo ==
    /\ pool_call.op # "none"
    /\ Len(pool_repos) < MaxRepos
    /\ \E name \in RepoNames :
        /\ pool_repos' = add_repo(pool_repos, name).repos
        /\ pool_call' = [op |-> "add_repo", name |-> name, id |-> 0, reuse_ids |-> FALSE,
                         ret |-> add_repo(pool_repos, name).id, ok |-> TRUE]
    /\ pool_before' = [strings |-> pool_strings, repos |-> pool_repos]
    /\ UNCHANGED << pool_strings, pool_added >>
    /\ PoolFrame

\* pool.remove_repo(id, reuse_ids)
PoolRemoveRepo ==
    /\ pool_call.op # "none"
    /\ \E id \in 1 .. MaxRepos + 1, reuse_ids \in BOOLEAN :
        /\ pool_repos' = remove_repo(pool_repos, id, reuse_ids).repos
        /\ pool_call' = [op |-> "remove_repo", name |-> "", id |-> id, reuse_ids |-> reuse_ids,
                         ret |-> 0, ok |-> remove_repo(pool_repos, id, reuse_ids).ok]
    /\ pool_before' = [strings |-> pool_strings, repos |-> pool_repos]
    /\ UNCHANGED << pool_strings, pool_added >>
    /\ PoolFrame

PoolNext ==
    \/ PoolAddString
    \/ PoolAddRepo
    \/ PoolRemoveRepo

PoolSpec == PoolInit /\ [][PoolNext]_vars

\* ------------------------------------------- the what-provides index
\* the solvables of a repo
RepoSolvables(repo, pkgs) == {[repo |-> repo, pkg |-> p] : p \in pkgs}

\* create_whatprovides(): the index of the solvables the pool holds now
create_whatprovides(solvables) == [created |-> TRUE, index |-> solvables]

\* repo_create frees the index
freewhatprovides == [created |-> FALSE, index |-> {}]

\* for_each_whatprovides_id(dep, f), selection_solvables: an error without the
\* index, else the solvables of the index that provide dep are visited
whatprovides_query(op, wp, dep) ==
    IF ~wp.created THEN [op |-> op, dep |-> dep, threw |-> TRUE, visited |-> {}]
    ELSE [op |-> op, dep |-> dep, threw |-> FALSE,
          visited |-> {x \in wp.index : match(dep, x.pkg)}]

after_repo_select(user) == IF user = "explicit" THEN "select" ELSE "decide"

\* the statement after MRepo mrepo = MRepo(m_pool, "__explicit_specs__", ...)
after_repo(user) == "create"

ProvidesInit ==
    /\ \E inst \in Prefixes :
        /\ wp_solvables = RepoSolvables("installed", inst)
        /\ whatprovides \in {freewhatprovides, create_whatprovides(wp_solvables)}
    /\ wp_user \in {"api", "explicit", "lockfile"}
    /\ wp_pc = IF wp_user = "api" THEN "idle" ELSE "start"
    /\ wp_packages \in (IF wp_user = "api" THEN {{}} ELSE SUBSET Pkgs)
    /\ wp_specs \in (IF wp_user = "explicit" THEN SeqsUpTo(MatchSpecs, 1) ELSE {<< >>})
    /\ wp_k = 1
    /\ wp_query = NoQuery
    /\ TransactionIdle
    /\ CtorIdle
    /\ CacheIdle
    /\ ValidateIdle
    /\ RelinkIdle
    /\ SortIdle
    /\ ConflictIdle
    /\ PoolIdle
    /\ LateIdle

ProvidesFrame == UNCHANGED << tx_vars, ctor_vars, cache_vars, val_vars, late_vars, relink_vars,
                              sort_vars, cmap_vars, pool_vars, wp_user, wp_packages,
                              wp_specs >>

\* repo1.add_solvable(), set_name, set_version, add_self_provide
ProvidesAddSolvable ==
    /\ wp_user = "api"
    /\ \E p \in Pkgs : wp_solvables' = wp_solvables \cup RepoSolvables("repo1", {p})
    /\ wp_query' = NoQuery
    /\ UNCHANGED << whatprovides, wp_pc, wp_k >>
    /\ ProvidesFrame

\* pool.create_whatprovides()
ProvidesCreate ==
    /\ wp_user = "api"
    /\ whatprovides' = create_whatprovides(wp_solvables)
    /\ wp_query' = NoQuery
    /\ UNCHANGED << wp_solvables, wp_pc, wp_k >>
    /\ ProvidesFrame

\* pool.for_each_whatprovides_id(dep_id, f)
ProvidesForEach ==
    /\ wp_user = "api"
    /\ \E dep \in MatchSpecs : wp_query' = whatprovides_query("for_each", whatprovides, dep)
    /\ UNCHANGED << wp_solvables, whatprovides, wp_pc, wp_k >>
    /\ ProvidesFrame

\* MRepo mrepo = MRepo(m_pool, "__explicit_specs__", packages)
ProvidesCtorRepo ==
    /\ wp_pc = "start"
    /\ wp_solvables' = wp_solvables \cup RepoSolvables("__explicit_specs__", wp_packages)
    /\ whatprovides' = freewhatprovides
    /\ wp_pc' = after_repo(wp_user)
    /\ wp_query' = NoQuery
    /\ UNCHANGED wp_k
    /\ ProvidesFrame

\* m_pool.create_whatprovides()
ProvidesCtorCreate ==
    /\ wp_pc = "create"
    /\ whatprovides' = create_whatprovides(wp_solvables)
    /\ wp_pc' = IF wp_user = "explicit" THEN "select" ELSE "decide"
    /\ wp_query' = NoQuery
    /\ UNCHANGED << wp_solvables, wp_k >>
    /\ ProvidesFrame

\* selection_solvables(m_pool, job.raw(), q.raw()) for one spec to remove
ProvidesCtorSelect ==
    /\ wp_pc = "select"
    /\ wp_k <= Len(wp_specs)
    /\ wp_query' = whatprovides_query("selection", whatprovides, wp_specs[wp_k])
    /\ wp_k' = wp_k + 1
    /\ UNCHANGED << wp_solvables, whatprovides, wp_pc >>
    /\ ProvidesFrame

\* the loop over specs_to_remove ends
ProvidesCtorSelected ==
    /\ wp_pc = "select"
    /\ wp_k > Len(wp_specs)
    /\ wp_pc' = "decide"
    /\ wp_query' = NoQuery
    /\ UNCHANGED << wp_solvables, whatprovides, wp_k >>
    /\ ProvidesFrame

\* FOR_REPO_SOLVABLES(mrepo.repo(), ...), transaction_create_decisionq
ProvidesCtorDecide ==
    /\ wp_pc = "decide"
    /\ wp_pc' = "created"
    /\ wp_query' = NoQuery
    /\ UNCHANGED << wp_solvables, whatprovides, wp_k >>
    /\ ProvidesFrame

ProvidesNext ==
    \/ ProvidesAddSolvable
    \/ ProvidesCreate
    \/ ProvidesForEach
    \/ ProvidesCtorRepo
    \/ ProvidesCtorCreate
    \/ ProvidesCtorSelect
    \/ ProvidesCtorSelected
    \/ ProvidesCtorDecide

ProvidesSpec == ProvidesInit /\ [][ProvidesNext]_vars

\* ------------- one PackageDownloadExtractTarget over a MultiPackageCache
MaxCaches == 2

\* what a cache directory holds of the package: a valid tarball or none, and
\* an extracted tree that is valid, invalid or absent
CacheStates == [writable : BOOLEAN, tarball : BOOLEAN, dir : {"none", "invalid", "valid"}]

\* the first cache that has the property, 0 when none has: has[k] tells
\* whether cache k has it
FirstCache(has) ==
    IF \E k \in DOMAIN has : has[k]
    THEN CHOOSE k \in DOMAIN has : has[k] /\ \A j \in 1 .. (k - 1) : ~has[j]
    ELSE 0

\* MultiPackageCache
get_extracted_dir_path(cs) == FirstCache([k \in DOMAIN cs |-> cs[k].dir = "valid"])
get_tarball_path(cs) == FirstCache([k \in DOMAIN cs |-> cs[k].tarball])
first_writable_path(cs) == FirstCache([k \in DOMAIN cs |-> cs[k].writable])

extract_beside_tarball(cache_path, tarball_path) == tarball_path

\* extract_path = m_cache_path / fn
extract_path_of(cache_path, tarball_path) == cache_path

CacheInit ==
    /\ caches \in {cs \in SeqsUpTo(CacheStates, MaxCaches) : first_writable_path(cs) # 0}
    /\ m_cache_path = 0
    /\ m_tarball_path = 0
    /\ extract_path = 0
    /\ t_case = "none"
    /\ cache_pc = "start"
    /\ TransactionIdle
    /\ CtorIdle
    /\ ValidateIdle
    /\ MoreIdle

CacheFrame == UNCHANGED << tx_vars, ctor_vars, val_vars, more_vars >>

\* PackageDownloadExtractTarget::target
CacheTarget ==
    /\ cache_pc = "start"
    /\ IF get_extracted_dir_path(caches) = 0
       THEN /\ m_cache_path' = first_writable_path(caches)
            /\ IF get_tarball_path(caches) # 0
               THEN /\ m_tarball_path' = get_tarball_path(caches)
                    /\ t_case' = "tarball"
                    /\ cache_pc' = "extract_sched"
               ELSE /\ m_tarball_path' = m_cache_path'
                    /\ t_case' = "download"
                    /\ cache_pc' = "download"
       ELSE /\ t_case' = "extracted"
            /\ cache_pc' = "cached"
            /\ UNCHANGED << m_cache_path, m_tarball_path >>
    /\ UNCHANGED << caches, extract_path >>
    /\ CacheFrame

\* the download writes the tarball to m_tarball_path and it is validated
CacheDownloaded ==
    /\ cache_pc = "download"
    /\ caches' = [caches EXCEPT ![m_tarball_path].tarball = TRUE]
    /\ cache_pc' = "extract_sched"
    /\ UNCHANGED << m_cache_path, m_tarball_path, extract_path, t_case >>
    /\ CacheFrame

\* extract: what is at extract_path is removed, the tarball is extracted
\* there and the repodata record is written
CacheExtract ==
    /\ cache_pc = "extract_sched"
    /\ extract_path' = extract_path_of(m_cache_path, m_tarball_path)
    /\ caches' = [caches EXCEPT ![extract_path'].dir = "valid"]
    /\ cache_pc' = "done"
    /\ UNCHANGED << m_cache_path, m_tarball_path, t_case >>
    /\ CacheFrame

\* extract: the extraction raises, what it wrote stays (EXTRACT_ERROR)
CacheExtractError ==
    /\ cache_pc = "extract_sched"
    /\ extract_path' = extract_path_of(m_cache_path, m_tarball_path)
    /\ caches' = [caches EXCEPT ![extract_path'].dir = "invalid"]
    /\ cache_pc' = "extract_error"
    /\ UNCHANGED << m_cache_path, m_tarball_path, t_case >>
    /\ CacheFrame

\* clear_cache: m_tarball_path and the directory named after it are removed
CacheClear ==
    /\ cache_pc = "extract_error"
    /\ caches' = [caches EXCEPT ![m_tarball_path].tarball = FALSE,
                               ![m_tarball_path].dir = "none"]
    /\ cache_pc' = "cleared"
    /\ UNCHANGED << m_cache_path, m_tarball_path, extract_path, t_case >>
    /\ CacheFrame

CacheNext ==
    \/ CacheTarget
    \/ CacheDownloaded
    \/ CacheExtract
    \/ CacheExtractError
    \/ CacheClear

CacheSpec == CacheInit /\ [][CacheNext]_vars

\* ------------------------------ PackageDownloadExtractTarget::validate
MaxSize == 2

\* the digests a record can hold ("" when it holds none) and those a file has
Digests == {"d1", "d2"}

validate_md5_too(expected_size, size, sha256, sha256_of_file, md5, md5_of_file) ==
    IF expected_size # 0 /\ size # expected_size THEN "SIZE_ERROR"
    ELSE IF sha256 # "" /\ sha256 # sha256_of_file THEN "SHA256_ERROR"
    ELSE IF md5 # "" /\ md5 # md5_of_file THEN "MD5SUM_ERROR"
    ELSE "VALID"

\* the value validate() leaves in m_validation_result when it returns
validate(expected_size, size, sha256, sha256_of_file, md5, md5_of_file) ==
    IF expected_size # 0 /\ size # expected_size THEN "SIZE_ERROR"
    ELSE IF sha256 # ""
    THEN (IF sha256 # sha256_of_file THEN "SHA256_ERROR" ELSE "VALID")
    ELSE IF md5 # ""
    THEN (IF md5 # md5_of_file THEN "MD5SUM_ERROR" ELSE "VALID")
    ELSE "VALID"

ValidateInit ==
    /\ m_expected_size \in 0 .. MaxSize
    /\ downloaded_size \in 0 .. MaxSize
    /\ m_sha256 \in Digests \cup {""}
    /\ sha256sum \in Digests
    /\ m_md5 \in Digests \cup {""}
    /\ md5sum \in Digests
    /\ m_validation_result = "UNDEFINED"
    /\ val_pc = "start"
    /\ TransactionIdle
    /\ CtorIdle
    /\ CacheIdle
    /\ MoreIdle

ValidateFrame ==
    UNCHANGED << ctx, steps, m_filter_type, m_filter_name_ids, m_to_install, m_to_remove,
                 conda_meta, conda_meta0, extracted, tarballs, lock, other, pc, result,
                 targets, semaphore, i, m_link_stack, m_unlink_stack, m_history_entry,
                 history, pyc_running, ops, ctor_vars, cache_vars, more_vars, m_expected_size,
                 downloaded_size, m_sha256, sha256sum, m_md5, md5sum >>

\* SIGINT / SIGTERM before validate reaches its interruption_point()
ValidateSignal ==
    /\ val_pc = "start"
    /\ ~sig_interrupted
    /\ sig_interrupted' = TRUE
    /\ UNCHANGED << m_validation_result, val_pc >>
    /\ ValidateFrame

\* validate runs to one of its returns: the size test returns, or the
\* interruption flag is down at interruption_point()
ValidateReturn ==
    /\ val_pc = "start"
    /\ (m_expected_size # 0 /\ downloaded_size # m_expected_size) \/ ~sig_interrupted
    /\ m_validation_result' = validate(m_expected_size, downloaded_size, m_sha256, sha256sum,
                                       m_md5, md5sum)
    /\ val_pc' = "returned"
    /\ UNCHANGED sig_interrupted
    /\ ValidateFrame

\* the size test passes and interruption_point() raises: m_validation_result
\* keeps the VALID of validate's first line
ValidateInterrupted ==
    /\ val_pc = "start"
    /\ ~(m_expected_size # 0 /\ downloaded_size # m_expected_size)
    /\ sig_interrupted
    /\ m_validation_result' = "VALID"
    /\ val_pc' = "interrupted"
    /\ UNCHANGED sig_interrupted
    /\ ValidateFrame

ValidateNext ==
    \/ ValidateSignal
    \/ ValidateReturn
    \/ ValidateInterrupted

ValidateSpec == ValidateInit /\ [][ValidateNext]_vars

\* ------------------------------- PackageDownloadExtractTarget::extract
\* what a directory at extract_path can hold before extract() runs: nothing,
\* or a complete tree that is not valid (its record is missing or is not
\* the record of the package)
PreExisting ==
    {[tree |-> "none", record |-> "none"],
     [tree |-> "full", record |-> "none"],
     [tree |-> "full", record |-> "stale"]}

\* an extracted tree is valid iff it holds the info/repodata_record.json of
\* the package
extracted_dir_valid(d) == d.record = "match"

try_block_record_early(t) ==
    << "remove_all", "extract", "write_repodata_record", "interruption_point", "add_url" >>

\* the statements of the try block of extract(), in order
try_block(t) ==
    << "remove_all", "extract", "interruption_point", "write_repodata_record", "add_url" >>

extract_workdir_final(path) == "final"

\* mamba::extract / mamba::extract_subproc: the archive is unpacked into a
\* temporary sibling of the destination, which is renamed into place
extract_workdir(path) == "tmp"

mutex_free_always(m) == TRUE

\* std::lock_guard<std::mutex> lock(urls_txt_mutex) is entered when nobody
\* holds the mutex
mutex_free(m) == m = 0

\* target t is at statement name of the try block
InTry(t, name) ==
    /\ ex_pc[t] = "try"
    /\ ex_stmt[t] <= Len(try_block(t))
    /\ try_block(t)[ex_stmt[t]] = name

\* the statement of t is done
ExStep(t) ==
    /\ ex_stmt' = [ex_stmt EXCEPT ![t] = @ + 1]
    /\ UNCHANGED << ex_pc, semaphore >>

\* catch (std::exception& e): EXTRACT_ERROR, return false; the lock_guard of
\* the semaphore is left
ExCatch(t) ==
    /\ ex_pc' = [ex_pc EXCEPT ![t] = "ret_false"]
    /\ semaphore' = semaphore + 1
    /\ UNCHANGED ex_stmt

\* two targets are about to run extract(); the semaphore admits one or two
ExtractInit ==
    /\ ex_dir \in [ExTargets -> PreExisting]
    /\ ex_tmp = [t \in ExTargets |-> "none"]
    /\ ex_pc = [t \in ExTargets |-> "start"]
    /\ ex_stmt = [t \in ExTargets |-> 1]
    /\ ex_url_pc = [t \in ExTargets |-> "out"]
    /\ urls_txt = << >>
    /\ urls_txt_mutex = 0
    /\ semaphore \in 1 .. Cardinality(ExTargets)
    /\ sig_interrupted = FALSE
    /\ conda_meta0 = {}
    /\ conda_meta = {}
    /\ steps = << >>
    /\ m_filter_type = "none"
    /\ m_filter_name_ids = {}
    /\ m_to_install = << >>
    /\ m_to_remove = << >>
    /\ ctx = [dry_run |-> FALSE, download_only |-> FALSE, extract_threads |-> 1]
    /\ extracted = {}
    /\ tarballs = {}
    /\ lock = "free"
    /\ other = "out"
    /\ pc = "start"
    /\ result = "none"
    /\ targets = << >>
    /\ i = 1
    /\ m_link_stack = << >>
    /\ m_unlink_stack = << >>
    /\ m_history_entry = [link_dists |-> << >>, unlink_dists |-> << >>]
    /\ history = << >>
    /\ pyc_running = FALSE
    /\ ops = << >>
    /\ CtorIdle
    /\ CacheIdle
    /\ ValidateIdle
    /\ RelinkIdle
    /\ SortIdle
    /\ ConflictIdle
    /\ PoolIdle
    /\ ProvidesIdle
    /\ PrefixIdle

ExtractFrame ==
    UNCHANGED << ctx, steps, m_filter_type, m_filter_name_ids, m_to_install, m_to_remove,
                 conda_meta, conda_meta0, extracted, tarballs, sig_interrupted, lock, other,
                 pc, result, targets, i, m_link_stack, m_unlink_stack, m_history_entry,
                 history, pyc_running, ops, ctor_vars, cache_vars, val_vars, relink_vars,
                 sort_vars, cmap_vars, pool_vars, wp_vars, prefix_vars >>

\* the interruption_point() at the head of extract(): the exception leaves
\* extract()
ExtractEnter(t) ==
    /\ ex_pc[t] = "start"
    /\ ex_pc' = [ex_pc EXCEPT ![t] = IF sig_interrupted THEN "thrown" ELSE "wait"]
    /\ UNCHANGED << ex_dir, ex_tmp, ex_stmt, ex_url_pc, urls_txt, urls_txt_mutex, semaphore >>
    /\ ExtractFrame

\* std::lock_guard<counting_semaphore> lock(DownloadExtractSemaphore::semaphore)
ExtractLock(t) ==
    /\ ex_pc[t] = "wait"
    /\ semaphore > 0
    /\ semaphore' = semaphore - 1
    /\ ex_pc' = [ex_pc EXCEPT ![t] = "locked"]
    /\ UNCHANGED << ex_dir, ex_tmp, ex_stmt, ex_url_pc, urls_txt, urls_txt_mutex >>
    /\ ExtractFrame

\* the interruption_point() that follows the lock, outside the try block
ExtractLocked(t) ==
    /\ ex_pc[t] = "locked"
    /\ IF sig_interrupted
       THEN /\ ex_pc' = [ex_pc EXCEPT ![t] = "thrown"]
            /\ semaphore' = semaphore + 1
       ELSE /\ ex_pc' = [ex_pc EXCEPT ![t] = "try"]
            /\ UNCHANGED semaphore
    /\ UNCHANGED << ex_dir, ex_tmp, ex_stmt, ex_url_pc, urls_txt, urls_txt_mutex >>
    /\ ExtractFrame

\* if (fs::exists(extract_path)) fs::remove_all(extract_path); removing an
\* existing directory may fail
ExtractRemoveAll(t) ==
    /\ InTry(t, "remove_all")
    /\ \/ /\ ex_dir' = [ex_dir EXCEPT ![t] = [tree |-> "none", record |-> "none"]]
          /\ ExStep(t)
       \/ /\ ex_dir[t].tree # "none"
          /\ UNCHANGED ex_dir
          /\ ExCatch(t)
    /\ UNCHANGED << ex_tmp, ex_url_pc, urls_txt, urls_txt_mutex >>
    /\ ExtractFrame

\* mamba::extract starts to unpack the archive
ExtractBegin(t) ==
    /\ InTry(t, "extract")
    /\ IF extract_workdir(t) = "tmp"
       THEN /\ ex_tmp[t] = "none"
            /\ ex_tmp' = [ex_tmp EXCEPT ![t] = "partial"]
            /\ UNCHANGED ex_dir
       ELSE /\ ex_dir[t].tree # "partial"
            /\ ex_dir' = [ex_dir EXCEPT ![t].tree = "partial"]
            /\ UNCHANGED ex_tmp
    /\ UNCHANGED << ex_pc, ex_stmt, ex_url_pc, urls_txt, urls_txt_mutex, semaphore >>
    /\ ExtractFrame

\* mamba::extract has unpacked the last file: the temporary directory is
\* renamed into place, which fails when the destination exists
ExtractFinish(t) ==
    /\ InTry(t, "extract")
    /\ IF extract_workdir(t) = "tmp"
       THEN /\ ex_tmp[t] = "partial"
            /\ ex_tmp' = [ex_tmp EXCEPT ![t] = "none"]
            /\ IF ex_dir[t].tree = "none"
               THEN /\ ex_dir' = [ex_dir EXCEPT ![t] = [tree |-> "full", record |-> "none"]]
                    /\ ExStep(t)
               ELSE /\ UNCHANGED ex_dir
                    /\ ExCatch(t)
       ELSE /\ ex_dir[t].tree = "partial"
            /\ ex_dir' = [ex_dir EXCEPT ![t].tree = "full"]
            /\ UNCHANGED ex_tmp
            /\ ExStep(t)
    /\ UNCHANGED << ex_url_pc, urls_txt, urls_txt_mutex >>
    /\ ExtractFrame

\* mamba::extract raises (a bad archive, an I/O error, an interruption seen
\* between two files): the temporary directory is removed
ExtractRaise(t) ==
    /\ InTry(t, "extract")
    /\ ex_tmp' = [ex_tmp EXCEPT ![t] = "none"]
    /\ ExCatch(t)
    /\ UNCHANGED << ex_dir, ex_url_pc, urls_txt, urls_txt_mutex >>
    /\ ExtractFrame

\* the interruption_point() of the try block: its exception is caught
ExtractInterruptionPoint(t) ==
    /\ InTry(t, "interruption_point")
    /\ IF sig_interrupted THEN ExCatch(t) ELSE ExStep(t)
    /\ UNCHANGED << ex_dir, ex_tmp, ex_url_pc, urls_txt, urls_txt_mutex >>
    /\ ExtractFrame

\* write_repodata_record(extract_path): info/index.json of the tree is read
\* (a tree that is not complete may lack it) and the record is written; a
\* write that fails leaves a record that is not the record of the package
ExtractWriteRecord(t) ==
    /\ InTry(t, "write_repodata_record")
    /\ \/ /\ ex_dir[t].tree # "none"
          /\ ex_dir' = [ex_dir EXCEPT ![t].record = "match"]
          /\ ExStep(t)
       \/ /\ ex_dir[t].tree # "full"
          /\ UNCHANGED ex_dir
          /\ ExCatch(t)
       \/ /\ ex_dir[t].tree = "full"
          /\ ex_dir' = [ex_dir EXCEPT ![t].record = "stale"]
          /\ ExCatch(t)
    /\ UNCHANGED << ex_tmp, ex_url_pc, urls_txt, urls_txt_mutex >>
    /\ ExtractFrame

\* add_url: std::lock_guard<std::mutex> lock(urls_txt_mutex)
AddUrlLock(t) ==
    /\ InTry(t, "add_url")
    /\ ex_url_pc[t] = "out"
    /\ mutex_free(urls_txt_mutex)
    /\ urls_txt_mutex' = t
    /\ ex_url_pc' = [ex_url_pc EXCEPT ![t] = "open"]
    /\ UNCHANGED << ex_dir, ex_tmp, ex_pc, ex_stmt, urls_txt, semaphore >>
    /\ ExtractFrame

\* add_url: urls_txt << m_url << std::endl
AddUrlWrite(t) ==
    /\ ex_url_pc[t] = "open"
    /\ urls_txt' = Append(urls_txt, t)
    /\ ex_url_pc' = [ex_url_pc EXCEPT ![t] = "written"]
    /\ UNCHANGED << ex_dir, ex_tmp, ex_pc, ex_stmt, urls_txt_mutex, semaphore >>
    /\ ExtractFrame

\* add_url returns: the file is closed and the mutex released
AddUrlReturn(t) ==
    /\ ex_url_pc[t] = "written"
    /\ urls_txt_mutex' = 0
    /\ ex_url_pc' = [ex_url_pc EXCEPT ![t] = "out"]
    /\ ExStep(t)
    /\ UNCHANGED << ex_dir, ex_tmp, urls_txt >>
    /\ ExtractFrame

\* the end of the try block: the semaphore is left, return true
ExtractReturn(t) ==
    /\ ex_pc[t] = "try"
    /\ ex_stmt[t] > Len(try_block(t))
    /\ ex_pc' = [ex_pc EXCEPT ![t] = "ret_true"]
    /\ semaphore' = semaphore + 1
    /\ UNCHANGED << ex_dir, ex_tmp, ex_stmt, ex_url_pc, urls_txt, urls_txt_mutex >>
    /\ ExtractFrame

\* SIGINT / SIGTERM while the targets extract
ExtractSignal ==
    /\ ~sig_interrupted
    /\ sig_interrupted' = TRUE
    /\ UNCHANGED << ctx, steps, m_filter_type, m_filter_name_ids, m_to_install, m_to_remove,
                    conda_meta, conda_meta0, extracted, tarballs, lock, other,
                    pc, result, targets, semaphore, i, m_link_stack, m_unlink_stack,
                    m_history_entry, history, pyc_running, ops, unit_vars >>

ExtractNext ==
    \/ ExtractSignal
    \/ \E t \in ExTargets :
        \/ ExtractEnter(t)
        \/ ExtractLock(t)
        \/ ExtractLocked(t)
        \/ ExtractRemoveAll(t)
        \/ ExtractBegin(t)
        \/ ExtractFinish(t)
        \/ ExtractRaise(t)
        \/ ExtractInterruptionPoint(t)
        \/ ExtractWriteRecord(t)
        \/ AddUrlLock(t)
        \/ AddUrlWrite(t)
        \/ AddUrlReturn(t)
        \/ ExtractReturn(t)

ExtractSpec == ExtractInit /\ [][ExtractNext]_vars

\* -------------------------------------------------------------- PrefixData
MaxFiles == 2

\* the packages whose records conda-meta can hold: two versions of one
\* name, and another name
MetaPkgs == {<<"a", 1>>, <<"a", 2>>, <<"b", 1>>}

\* the files conda-meta can hold: the record of a package, well formed or
\* not, under a name that ends with .json, or another file
MetaFiles ==
    [pkg : MetaPkgs, suffix : {".json"}, malformed : BOOLEAN]
    \cup [pkg : MetaPkgs, suffix : {".txt"}, malformed : {FALSE}]

\* the record nlohmann::json and PackageInfo(std::move(j)) make of a file
PackageInfo(f) == [name |-> Name(f.pkg), version |-> Version(f.pkg)]

\* ends_with(p.path().string(), ".json")
ends_with_json(f) == f.suffix = ".json"

records_insert_always(records, prec) == records \cup {prec}

\* m_package_records.insert({ prec.name, std::move(prec) }): the map takes
\* the pair only when it has no element with that key
records_insert(records, prec) ==
    IF \E r \in records : r.name = prec.name THEN records ELSE records \cup {prec}

\* add_packages: the loop over packages
RECURSIVE add_packages(_, _)
add_packages(records, packages) ==
    IF packages = << >> THEN records
    ELSE add_packages(records_insert(records, Head(packages)), Tail(packages))

\* PrefixData::create(prefix_path) is called on a prefix whose conda-meta
\* holds some files
PrefixInit ==
    /\ meta_files \in SeqsUpTo(MetaFiles, MaxFiles)
    /\ \A j \in DOMAIN meta_files, k \in DOMAIN meta_files :
          (meta_files[j].pkg = meta_files[k].pkg /\ meta_files[j].suffix = meta_files[k].suffix)
              => j = k
    /\ m_records = {}
    /\ m_records_before = {}
    /\ prefix_call = [op |-> "none", packages |-> << >>]
    /\ prefix_k = 1
    /\ prefix_pc = "load"
    /\ TransactionIdle
    /\ CtorIdle
    /\ CacheIdle
    /\ ValidateIdle
    /\ RelinkIdle
    /\ SortIdle
    /\ ConflictIdle
    /\ PoolIdle
    /\ ProvidesIdle
    /\ ExtractIdle

PrefixFrame ==
    UNCHANGED << tx_vars, ctor_vars, cache_vars, val_vars, relink_vars, sort_vars, cmap_vars,
                 pool_vars, wp_vars, ex_vars, meta_files >>

\* load: an entry of the directory whose name does not end with .json
PrefixSkipFile ==
    /\ prefix_pc = "load"
    /\ prefix_k <= Len(meta_files)
    /\ ~ends_with_json(meta_files[prefix_k])
    /\ prefix_k' = prefix_k + 1
    /\ UNCHANGED << m_records, m_records_before, prefix_call, prefix_pc >>
    /\ PrefixFrame

\* load_single_record of a well formed file
PrefixLoadRecord ==
    /\ prefix_pc = "load"
    /\ prefix_k <= Len(meta_files)
    /\ ends_with_json(meta_files[prefix_k])
    /\ ~meta_files[prefix_k].malformed
    /\ m_records_before' = m_records
    /\ m_records' = records_insert(m_records, PackageInfo(meta_files[prefix_k]))
    /\ prefix_call' = [op |-> "load_single_record",
                       packages |-> << PackageInfo(meta_files[prefix_k]) >>]
    /\ prefix_k' = prefix_k + 1
    /\ UNCHANGED prefix_pc
    /\ PrefixFrame

\* load_single_record of a malformed file: infile >> j raises, nothing
\* catches it before create, which returns the error
PrefixLoadRaise ==
    /\ prefix_pc = "load"
    /\ prefix_k <= Len(meta_files)
    /\ ends_with_json(meta_files[prefix_k])
    /\ meta_files[prefix_k].malformed
    /\ prefix_pc' = "unexpected"
    /\ UNCHANGED << m_records, m_records_before, prefix_call, prefix_k >>
    /\ PrefixFrame

\* the directory is read: create returns the PrefixData
PrefixLoaded ==
    /\ prefix_pc = "load"
    /\ prefix_k > Len(meta_files)
    /\ prefix_pc' = "loaded"
    /\ UNCHANGED << m_records, m_records_before, prefix_call, prefix_k >>
    /\ PrefixFrame

\* add_packages(packages) on the loaded PrefixData
PrefixAddPackages ==
    /\ prefix_pc = "loaded"
    /\ \E packages \in SeqsUpTo({PackageInfo([pkg |-> p]) : p \in MetaPkgs}, 2) :
         /\ packages # << >>
         /\ m_records_before' = m_records
         /\ m_records' = add_packages(m_records, packages)
         /\ prefix_call' = [op |-> "add_packages", packages |-> packages]
    /\ UNCHANGED << prefix_k, prefix_pc >>
    /\ PrefixFrame

PrefixNext ==
    \/ PrefixSkipFile
    \/ PrefixLoadRecord
    \/ PrefixLoadRaise
    \/ PrefixLoaded
    \/ PrefixAddPackages

PrefixSpec == PrefixInit /\ [][PrefixNext]_vars

\* ================================================================== claims
ExecOps == SelectSeq(ops, LAMBDA o : o.op \in {"link", "unlink"})
UndoOps == SelectSeq(ops, LAMBDA o : o.op \in {"undo_link", "undo_unlink"})
FailedOps == SelectSeq(ops, LAMBDA o : o.op \in {"failed_link", "failed_unlink"})

Reverse(seq) == [k \in DOMAIN seq |-> seq[Len(seq) + 1 - k]]

\* the operation an undo entry of the log undoes
Undone(o) == [op |-> IF o.op = "undo_link" THEN "link" ELSE "unlink", pkg |-> o.pkg]
UndoneOps == [k \in DOMAIN UndoOps |-> Undone(UndoOps[k])]

SomeTargetInvalid ==
    \E k \in DOMAIN targets : targets[k].m_validation_result \in ValidationErrors

\* the operations the plan asks for in its first n steps: Install -> link,
\* Remove -> unlink, Change -> unlink then link, ignored or filtered -> none
RECURSIVE PlannedOps(_)
PlannedOps(n) ==
    IF n = 0 THEN << >>
    ELSE LET x == steps[n] IN
         PlannedOps(n - 1) \o
         (IF filter(m_filter_type, m_filter_name_ids, x.s) \/ x.ttype = "IGNORE" THEN << >>
          ELSE IF x.ttype = "INSTALL" THEN << [op |-> "link", pkg |-> x.s] >>
          ELSE IF x.ttype = "ERASE" THEN << [op |-> "unlink", pkg |-> x.s] >>
          ELSE << [op |-> "unlink", pkg |-> x.s], [op |-> "link", pkg |-> x.obs] >>)

\* execute is between taking the lock and leaving its scope
InRegion == pc \in {"targets", "download", "wait", "check", "loop", "post", "history"}

\* C1: when execute (not a dry run) ends while a package of the fetch/extract
\* phase has failed validation or extraction, it does not report success, it
\* has executed no link or unlink operation and conda-meta is as it was.
C1_InvalidPackageAborts ==
    [][(pc # "done" /\ pc' = "done" /\ ~ctx.dry_run /\ SomeTargetInvalid)
          => (result' # "true" /\ ops' = << >> /\ conda_meta' = conda_meta0)]_vars

\* C2: when execute has seen the interruption flag and rolled back, every
\* operation it had executed has been undone, the rollback stacks are empty,
\* conda-meta holds the records it held before execute, and execute returns
\* false; nothing is undone on any other path.
C2_RollbackRestoresPrefix ==
    /\ (pc = "done" /\ result = "false")
         => /\ conda_meta = conda_meta0
            /\ Len(UndoOps) = Len(ExecOps)
            /\ Range(UndoneOps) = Range(ExecOps)
            /\ m_link_stack = << >>
            /\ m_unlink_stack = << >>
    /\ UndoOps # << >> => (pc = "done" /\ result = "false")

C2_Witness ==
    /\ pc = "done"
    /\ result = "false"
    /\ \E k \in DOMAIN ops : ops[k].op = "undo_link"
    /\ \E k \in DOMAIN ops : ops[k].op = "undo_unlink"
    /\ Len(steps) = 2
    /\ i = 2

\* C3: when a link or unlink operation has raised an I/O error, execute ends
\* with conda-meta holding the records it held before: what the transaction
\* linked is gone and what it unlinked is back.
C3_IOErrorRollsBack ==
    (pc = "done" /\ FailedOps # << >>) => conda_meta = conda_meta0

\* C4: rollback undoes the executed operations in exactly the reverse order
\* of their execution.
C4_RollbackReverseOrder ==
    (pc = "done" /\ result = "false") => UndoneOps = Reverse(ExecOps)

\* C5: once a link or unlink operation has been attempted, every target of
\* the fetch/extract phase exists and is finished with no task still running;
\* and a downloaded package is validated or extracted only after its download
\* was finalized successfully.
C5_FetchBeforeLink ==
    /\ ops # << >> =>
         /\ Len(targets) = Len(m_to_install)
         /\ \A k \in DOMAIN targets :
              /\ targets[k].m_finished
              /\ targets[k].st \in {"cached", "done"}
    /\ \A k \in DOMAIN targets :
         (targets[k].case = "download" /\ targets[k].st \in {"ve_sched", "validated", "in_sem", "done"})
            => targets[k].http_status = 200

C5_Witness ==
    /\ \E k \in DOMAIN ops : ops[k].op = "link"
    /\ Len(targets) = 2
    /\ targets[1].case = "download"
    /\ targets[2].case = "tarball"

\* C6: while the loop runs and when execute has returned true after the loop,
\* the operations executed are those the plan asks for, in step order, for
\* the steps done so far; a returned execute has done all the steps.
C6_StepsInPlanOrder ==
    /\ (pc \in {"loop", "post", "history"}) => ops = PlannedOps(i - 1)
    /\ (pc = "done" /\ result = "true" /\ ~ctx.dry_run /\ ~ctx.download_only)
         => (i = Len(steps) + 1 /\ ops = PlannedOps(Len(steps)))

C6_Witness ==
    /\ pc = "done"
    /\ result = "true"
    /\ Len(steps) = 2
    /\ steps[1].ttype = "UPGRADED"
    /\ steps[2].ttype = "ERASE"
    /\ Len(ops) = 3

\* C7: when a package download has finished with an HTTP status >= 400,
\* execute has ended with an error, and no link or unlink operation has been
\* executed.
C7_HttpErrorIsFatal ==
    (\E k \in DOMAIN targets : targets[k].http_status >= 400)
        => (pc = "done" /\ result = "exception" /\ ops = << >> /\ history = << >>
            /\ conda_meta = conda_meta0)

C7_Witness ==
    /\ \E k \in DOMAIN targets : targets[k].http_status >= 400
    /\ \E k \in DOMAIN targets : targets[k].http_status = 200
    /\ pc = "done"

\* C8: from the fetch phase to the History append execute holds the lock and
\* the other transaction is outside; once execute has ended, on any path, it
\* no longer holds the lock.
C8_LockHeldAndReleased ==
    /\ InRegion => (lock = "self" /\ other = "out")
    /\ other = "in" => lock = "other"
    /\ pc \in {"start", "done"} => lock # "self"

C8_Witness ==
    /\ pc = "done"
    /\ result = "exception"
    /\ FailedOps # << >>
    /\ lock = "free"

\* C9: the history holds at most one entry; it holds one exactly when a full
\* execute has returned true, the entry was appended after the pyc
\* compilation was waited for and with every step done, and it lists the
\* packages linked and unlinked in step order; an interrupted execute
\* (one that returns false) appends none.
C9_HistoryOnce ==
    /\ Len(history) <= 1
    /\ history # << >> =>
         /\ pc = "done" /\ result = "true"
         /\ ~pyc_running
         /\ i = Len(steps) + 1
         /\ history[1].link_dists = PkgsOf(OfKind(ops, "link"))
         /\ history[1].unlink_dists = PkgsOf(OfKind(ops, "unlink"))
         /\ ops = PlannedOps(Len(steps))
    /\ (pc = "done" /\ result = "true" /\ ~ctx.dry_run /\ ~ctx.download_only)
         => Len(history) = 1
    /\ result = "false" => history = << >>

C9_Witness ==
    /\ Len(history) = 1
    /\ Len(history[1].link_dists) = 2
    /\ Len(history[1].unlink_dists) = 1
    /\ sig_interrupted

\* C10: with download_only (and no dry run) execute executes no link or
\* unlink operation and appends no History entry; when it returns it returns
\* true, after the fetch/extract phase has handled every package to install.
C10_DownloadOnly ==
    (ctx.download_only /\ ~ctx.dry_run) =>
        /\ ops = << >>
        /\ history = << >>
        /\ conda_meta = conda_meta0
        /\ pc \notin {"loop", "post", "history"}
        /\ (pc = "done" /\ result # "exception")
             => (result = "true" /\ Len(targets) = Len(m_to_install))

C10_Witness ==
    /\ ctx.download_only
    /\ ~ctx.dry_run
    /\ pc = "done"
    /\ result = "true"
    /\ \E k \in DOMAIN targets : targets[k].st = "done" /\ targets[k].m_validation_result = "VALID"
    /\ steps # << >>

\* C11: when execute (not a dry run) ends while the interruption flag was
\* raised before the transaction loop had finished (in the fetch/extract
\* phase or in the loop), it does not return true, with download_only set or
\* not.
C11_InterruptedNotSuccess ==
    [][(pc \in {"targets", "download", "wait", "check", "loop"} /\ sig_interrupted
          /\ pc' = "done")
          => result' # "true"]_vars

\* C13: with to_install and to_remove both empty, execute executes no link
\* or unlink operation, leaves the conda-meta records and the history as they
\* were, and, when it got the lock and was not interrupted, returns true.
C13_EmptyTransactionNoMutation ==
    empty =>
        /\ ops = << >>
        /\ conda_meta = conda_meta0
        /\ history = << >>
        /\ (pc = "done" /\ ~sig_interrupted /\ result # "exception") => result = "true"

\* the remove specs that select no solvable of the pool, in the order given
Unmatched ==
    SelectSeq(specs_to_remove,
              LAMBDA ms : \A p \in conda_meta0 \cup Range(specs_to_install) : ~match(ms, p))

\* C12: when the constructor of a removal transaction has ended, it has
\* thrown exactly when some remove spec matches no solvable; the message then
\* lists every unmatched spec, and no transaction exists: no step, nothing
\* to remove, nothing to install. Otherwise the transaction is created.
C12_RemoveNotFoundFails ==
    ctor_pc \in {"thrown", "created"} =>
        IF Unmatched # << >>
        THEN /\ ctor_pc = "thrown"
             /\ what = Unmatched
             /\ steps = << >>
             /\ m_to_remove = << >>
             /\ m_to_install = << >>
        ELSE ctor_pc = "created"

C12_Witness ==
    /\ ctor_pc = "thrown"
    /\ Len(what) = 2
    /\ Len(specs_to_remove) = 3
    /\ \E k \in DOMAIN decision : decision[k].sign = "-" /\ decision[k].repo = "installed"

NoTwoSameName(seq) ==
    \A k, l \in DOMAIN seq : k # l => Name(seq[k]) # Name(seq[l])

\* C20: the to_install of a transaction constructed from explicit specs (or
\* from the packages of a lockfile) holds no two packages of the same name.
C20_ToInstallUniqueNames ==
    ctor_pc = "created" => NoTwoSameName(m_to_install)

\* the package of target k
PkgOf(k) == m_to_install[k]

\* C14: target() puts each package of to_install in exactly one case: with
\* an extracted tree in the cache the target is finished at once and never
\* changes (no download, no extraction); else with a tarball in the cache an
\* extraction is scheduled and the target is never downloaded nor validated
\* (no network call); else it is a download target, which reaches validation
\* only from a finalized download and extraction only from validation.
C14_TargetCases ==
    [][\A k \in DOMAIN targets' :
         IF k \notin DOMAIN targets
         THEN IF PkgOf(k) \in extracted
              THEN targets'[k].case = "extracted" /\ targets'[k].m_finished
                   /\ targets'[k].st = "cached"
              ELSE IF PkgOf(k) \in tarballs
              THEN targets'[k].case = "tarball" /\ ~targets'[k].m_finished
                   /\ targets'[k].st = "extract_sched"
              ELSE targets'[k].case = "download" /\ ~targets'[k].m_finished
                   /\ targets'[k].st = "dl"
         ELSE /\ targets'[k].case = targets[k].case
              /\ targets[k].case = "extracted" => targets'[k] = targets[k]
              /\ targets[k].case = "tarball" =>
                    /\ targets'[k].st \in {"extract_sched", "in_sem", "done", "aborted"}
                    /\ targets'[k].http_status = 0
              /\ (targets[k].case = "download" /\ targets'[k].st # targets[k].st) =>
                    /\ targets'[k].st = "ve_sched" => targets[k].st = "dl"
                    /\ targets'[k].st = "validated" => targets[k].st = "ve_sched"
                    /\ targets'[k].st = "in_sem" => targets[k].st = "validated"]_vars

C14_Witness ==
    /\ Len(targets) = 2
    /\ targets[1].case = "tarball"
    /\ targets[1].st = "done"
    /\ targets[2].case = "download"
    /\ targets[2].st = "done"
    /\ targets[2].m_validation_result = "VALID"
    /\ extracted = Range(m_to_install)

\* the targets whose downloaded tarball failed validation
FailedValidation ==
    {k \in DOMAIN targets :
        targets[k].m_validation_result \in {"SIZE_ERROR", "SHA256_ERROR", "MD5SUM_ERROR"}}

\* C17: a package whose downloaded tarball failed validation is never
\* extracted nor downloaded again; and when execute ends, with no
\* interruption and no failed download, it ends with an error and neither
\* the tarball nor an extraction directory of any such package is left in
\* the cache.
C17_InvalidTarballsRemoved ==
    [][/\ \A k \in FailedValidation :
            /\ targets'[k] = targets[k]
            /\ PkgOf(k) \notin extracted'
       /\ (pc # "done" /\ pc' = "done" /\ ~sig_interrupted
             /\ \A k \in DOMAIN targets' : ~download_failed(targets'[k].http_status)) =>
            \A k \in FailedValidation :
                /\ result' = "exception"
                /\ PkgOf(k) \notin tarballs']_vars

\* the tasks inside the section guarded by the semaphore
InSection == {k \in DOMAIN targets : targets[k].st = "in_sem"}

C19_DownloadValidateExtract ==
    [][\A k \in DOMAIN targets :
         targets[k].case = "download" =>
            /\ (targets[k].st = "ve_sched" /\ targets'[k].st \in {"validated", "done"})
                  => (targets[k].http_status > 0 /\ targets[k].http_status < 400)
            /\ (targets[k].st # "in_sem" /\ targets'[k].st = "in_sem")
                  => /\ targets[k].st = "validated"
                     /\ targets[k].m_validation_result = "VALID"
                     /\ targets[k].http_status > 0 /\ targets[k].http_status < 400
            /\ (PkgOf(k) \notin extracted /\ PkgOf(k) \in extracted')
                  => targets[k].st = "in_sem" /\ targets[k].m_validation_result = "VALID"]_vars

C19_Witness ==
    /\ Len(targets) = 2
    /\ targets[1].case = "download"
    /\ targets[2].case = "download"
    /\ targets[1].st = "ve_sched"
    /\ targets[2].st = "in_sem"
    /\ ~sig_interrupted

\* C15 as stated: when a tarball found in some cache, all caches being
\* writable, has been extracted, the extraction went into the cache that
\* holds the tarball, and get_extracted_dir_path is non-empty.
C15_ExtractBesideTarball ==
    (cache_pc = "done" /\ t_case = "tarball" /\ \A k \in DOMAIN caches : caches[k].writable) =>
        /\ extract_path = m_tarball_path
        /\ get_extracted_dir_path(caches) # 0

\* C15 amended: when a tarball found in some cache has been extracted, the
\* extraction went into the first writable cache, whichever cache holds the
\* tarball; the tarball is still where it was found, and
\* get_extracted_dir_path is non-empty.
C15_ExtractIntoFirstWritable ==
    (cache_pc = "done" /\ t_case = "tarball") =>
        /\ extract_path = first_writable_path(caches)
        /\ caches[extract_path].dir = "valid"
        /\ caches[m_tarball_path].tarball
        /\ get_extracted_dir_path(caches) # 0

C15_Witness ==
    /\ cache_pc = "done"
    /\ t_case = "tarball"
    /\ Len(caches) = 2
    /\ caches[1].writable /\ caches[2].writable
    /\ m_tarball_path = 2
    /\ extract_path = 1

\* the expected size is known and differs from the downloaded size
SizeMismatch == m_expected_size # 0 /\ downloaded_size # m_expected_size

\* C16: when validate has returned, the result is SIZE_ERROR iff the
\* expected size is known and differs from the downloaded size; otherwise,
\* with a sha256 recorded, it is VALID iff the file's sha256 equals it, and
\* SHA256_ERROR if not, whatever the md5; otherwise, with an md5 recorded,
\* it is VALID iff the file's md5 equals it, and MD5SUM_ERROR if not; with
\* no digest recorded it is VALID.
C16_ValidateResult ==
    val_pc = "returned" =>
        /\ m_validation_result = "SIZE_ERROR" <=> SizeMismatch
        /\ (~SizeMismatch /\ m_sha256 # "") =>
              /\ m_validation_result = "VALID" <=> sha256sum = m_sha256
              /\ m_validation_result \in {"VALID", "SHA256_ERROR"}
        /\ (~SizeMismatch /\ m_sha256 = "" /\ m_md5 # "") =>
              /\ m_validation_result = "VALID" <=> md5sum = m_md5
              /\ m_validation_result \in {"VALID", "MD5SUM_ERROR"}
        /\ (~SizeMismatch /\ m_sha256 = "" /\ m_md5 = "") => m_validation_result = "VALID"

C16_Witness ==
    /\ val_pc = "returned"
    /\ m_expected_size # 0
    /\ downloaded_size = m_expected_size
    /\ m_sha256 # ""
    /\ sha256sum = m_sha256
    /\ m_md5 # ""
    /\ md5sum # m_md5
    /\ m_validation_result = "VALID"

\* the solver's decision removes installed solvable p
DecidedRemoved(p) ==
    \E k \in DOMAIN solver_decision :
        solver_decision[k] = [sign |-> "-", repo |-> "installed", pkg |-> p]

\* C21: when the constructor relinks (relink_noarch and an installed repo),
\* every installed noarch python package the solver's decision keeps is a
\* reinstall in the rebuilt transaction (the installed solvable is removed
\* and the same name and version is installed in its place), and for the ones
\* the decision already removes no decision is added
C21_RelinkReinstallsNoarch ==
    (relink_pc = "done" /\ relink_noarch /\ installed_repo) =>
        \A p \in noarch_python :
            IF DecidedRemoved(p)
            THEN \A k \in DOMAIN decision :
                    (decision[k].pkg = p /\ decision[k].sign = "+") =>
                        \E j \in DOMAIN solver_decision : solver_decision[j] = decision[k]
            ELSE \E k \in DOMAIN steps :
                    steps[k] = [ttype |-> "REINSTALLED", s |-> p, obs |-> p]

\* the installed packages that the record of n depends on, directly or not
RECURSIVE DependsClosure(_, _, _)
DependsClosure(records, S, k) ==
    IF k = 0 THEN S
    ELSE DependsClosure(records,
                        S \cup UNION {records[x] \cap DOMAIN records : x \in S}, k - 1)

DependsTransitively(records, n) ==
    DependsClosure(records, records[n] \cap DOMAIN records, Cardinality(DOMAIN records))

\* no installed package depends on itself, directly or through others
Acyclic(records) == \A n \in DOMAIN records : n \notin DependsTransitively(records, n)

\* sorted holds every record once, each after the installed packages its
\* depends name
DependenciesFirst ==
    /\ Len(sorted) = Cardinality(DOMAIN m_package_records)
    /\ Range(sorted) = DOMAIN m_package_records
    /\ \A n \in DOMAIN m_package_records :
        \A d \in (m_package_records[n] \cap DOMAIN m_package_records) \ {n} :
            \E k1, k2 \in DOMAIN sorted : k1 < k2 /\ sorted[k1] = d /\ sorted[k2] = n

C23_ConflictSymmetric ==
    cmap_call.op # "none" =>
        \A a, b \in Keys : in_conflict(cmap, a, b) <=> in_conflict(cmap, b, a)

\* a map that holds a conflict between two distinct keys after a removal
C23_Witness ==
    /\ cmap_call.op \in {"remove", "remove_pair"}
    /\ cmap_ret
    /\ \E a, b \in Keys : a # b /\ in_conflict(cmap, a, b) /\ in_conflict(cmap, b, a)

\* C24: after remove(a), a has no conflict, in_conflict(a, x) and
\* in_conflict(x, a) are false for every x, a itself included, a key whose
\* only conflicts were with a has no conflict any more, and the pairs that do
\* not involve a are as before
C24_RemoveKey ==
    cmap_call.op = "remove" =>
        LET a == cmap_call.a IN
        /\ ~has_conflict(cmap, a)
        /\ \A x \in Keys : ~in_conflict(cmap, a, x) /\ ~in_conflict(cmap, x, a)
        /\ \A x \in Keys \ {a} :
            (has_conflict(cmap_before, x) /\ cmap_before[x] \subseteq {a})
                => ~has_conflict(cmap, x)
        /\ \A x, y \in Keys \ {a} :
            in_conflict(cmap, x, y) <=> in_conflict(cmap_before, x, y)

\* remove(a) has removed a key that was in conflict with itself and with a
\* key that had no other conflict, while another conflict stays
C24_Witness ==
    /\ cmap_call.op = "remove"
    /\ cmap_ret
    /\ in_conflict(cmap_before, cmap_call.a, cmap_call.a)
    /\ \E x \in Keys \ {cmap_call.a} :
        /\ has_conflict(cmap_before, x)
        /\ cmap_before[x] = {cmap_call.a}
        /\ ~has_conflict(cmap, x)
    /\ \E x, y \in Keys \ {cmap_call.a} : in_conflict(cmap, x, y)

\* C25: add(a, b) returns true exactly when a and b were not in conflict, and
\* leaves the relation as it was when it returns false; remove(a, b) returns
\* true exactly when a and b were in conflict, afterwards neither
\* in_conflict(a, b) nor in_conflict(b, a) holds and every other pair is as
\* before; remove(a) returns true exactly when a had a conflict
C25_ReturnValues ==
    LET a == cmap_call.a
        b == cmap_call.b
    IN
    /\ cmap_call.op = "add" =>
        /\ cmap_ret <=> ~in_conflict(cmap_before, a, b)
        /\ ~cmap_ret => cmap = cmap_before
    /\ cmap_call.op = "remove_pair" =>
        /\ cmap_ret <=> in_conflict(cmap_before, a, b)
        /\ ~in_conflict(cmap, a, b) /\ ~in_conflict(cmap, b, a)
        /\ \A x, y \in Keys :
            {x, y} # {a, b} => (in_conflict(cmap, x, y) <=> in_conflict(cmap_before, x, y))
        /\ \A x \in {a, b} :
            has_conflict(cmap, x) <=> \E y \in Keys : {x, y} # {a, b} /\ in_conflict(cmap_before, x, y)
    /\ cmap_call.op = "remove" =>
        (cmap_ret <=> has_conflict(cmap_before, a))

\* remove(a, b) has removed a conflict between two distinct keys, one of which
\* keeps another conflict and the other has none left
C25_Witness ==
    /\ cmap_call.op = "remove_pair"
    /\ cmap_ret
    /\ cmap_call.a # cmap_call.b
    /\ has_conflict(cmap, cmap_call.a)
    /\ ~has_conflict(cmap, cmap_call.b)

\* C26: add(x, x) on a map in which x has no conflict returns true, afterwards
\* has_conflict(x) and in_conflict(x, x) hold and every other pair is as
\* before; remove(x) removes the conflict of x with itself too
C26_SelfConflict ==
    LET x == cmap_call.a IN
    /\ (cmap_call.op = "add" /\ cmap_call.b = x /\ ~has_conflict(cmap_before, x)) =>
        /\ cmap_ret
        /\ has_conflict(cmap, x)
        /\ in_conflict(cmap, x, x)
        /\ \A y, z \in Keys :
            <<y, z>> # <<x, x>> => (in_conflict(cmap, y, z) <=> in_conflict(cmap_before, y, z))
    /\ (cmap_call.op = "remove" /\ in_conflict(cmap_before, x, x)) =>
        ~in_conflict(cmap, x, x) /\ ~has_conflict(cmap, x)

\* add(x, x) has returned true on a map that holds conflicts of other keys
C26_Witness ==
    /\ cmap_call.op = "add"
    /\ cmap_call.b = cmap_call.a
    /\ cmap_ret
    /\ ~has_conflict(cmap_before, cmap_call.a)
    /\ \E y, z \in Keys \ {cmap_call.a} : y # z /\ in_conflict(cmap, y, z)

\* C27: after any sequence of add_string calls, the strings added and their
\* ids are in bijection: add_string returns the id find_string gives, the id
\* of a string added before stays the same (also when it is added again),
\* distinct strings have distinct ids, find_string has a value exactly for
\* the strings that were added, and get_string gives the string back
C27_StringInterning ==
    /\ \A s \in Strings : find_string(pool_strings, s) # 0 <=> s \in pool_added
    /\ \A s \in pool_added : get_string(pool_strings, find_string(pool_strings, s)) = s
    /\ \A s, t \in pool_added :
        find_string(pool_strings, s) = find_string(pool_strings, t) => s = t
    /\ \A s \in Strings :
        find_string(pool_before.strings, s) # 0
            => find_string(pool_strings, s) = find_string(pool_before.strings, s)
    /\ pool_call.op = "add_string" =>
        /\ pool_call.ret = find_string(pool_strings, pool_call.name)
        /\ get_string(pool_strings, pool_call.ret) = pool_call.name

\* a string is added again after another one, and a third was never added
C27_Witness ==
    /\ pool_call.op = "add_string"
    /\ find_string(pool_before.strings, pool_call.name) = pool_call.ret
    /\ Len(pool_strings) = 2
    /\ \E s \in Strings : find_string(pool_strings, s) = 0

\* C29: remove_repo(id) on an existing repo returns true, afterwards
\* has_repo(id) is false, repo_count is one less and every other repo is
\* still there; on an id that names no repo it returns false and changes
\* nothing; add_repo creates a repo whose id no repo of the pool has, also
\* when the name is that of another repo
C29_RepoFrame ==
    LET before == pool_before.repos
        Others(id) == {x \in DOMAIN before : x # id /\ has_repo(before, x)}
    IN
    /\ (pool_call.op = "remove_repo" /\ has_repo(before, pool_call.id)) =>
        /\ pool_call.ok
        /\ ~has_repo(pool_repos, pool_call.id)
        /\ repo_count(pool_repos) = repo_count(before) - 1
        /\ \A x \in Others(pool_call.id) :
            has_repo(pool_repos, x) /\ pool_repos[x].name = before[x].name
    /\ (pool_call.op = "remove_repo" /\ ~has_repo(before, pool_call.id)) =>
        /\ ~pool_call.ok
        /\ pool_repos = before
    /\ pool_call.op = "add_repo" =>
        /\ ~has_repo(before, pool_call.ret)
        /\ has_repo(pool_repos, pool_call.ret)
        /\ pool_repos[pool_call.ret].name = pool_call.name
        /\ repo_count(pool_repos) = repo_count(before) + 1
        /\ \A x \in Others(pool_call.ret) :
            has_repo(pool_repos, x) /\ pool_repos[x].name = before[x].name

\* a repo between two others has been removed, one of which has its name
C29_Witness ==
    /\ pool_call.op = "remove_repo"
    /\ pool_call.ok
    /\ pool_call.id = 2
    /\ has_repo(pool_repos, 1) /\ has_repo(pool_repos, 3)
    /\ pool_repos[1].name = pool_before.repos[2].name

\* the solvables of the pool that provide dep
Providers(dep) == {x \in wp_solvables : match(dep, x.pkg)}

\* C28: a query of the what-provides index before create_whatprovides fails
\* with an error and visits no solvable; a query of an index created since the
\* last solvable was added visits exactly the solvables that provide the
\* dependency; in the constructors of explicit specs and of a lockfile the
\* index is created after the solvables of their repo are added and before
\* any selection, so that their selections never fail and see these solvables
C28_WhatprovidesIndex ==
    /\ (wp_query.op # "none" /\ ~whatprovides.created) =>
        (wp_query.threw /\ wp_query.visited = {})
    /\ (wp_query.op # "none" /\ whatprovides = create_whatprovides(wp_solvables)) =>
        (~wp_query.threw /\ wp_query.visited = Providers(wp_query.dep))
    /\ wp_pc \in {"select", "decide", "created"} =>
        /\ whatprovides = create_whatprovides(wp_solvables)
        /\ RepoSolvables("__explicit_specs__", wp_packages) \subseteq whatprovides.index
    /\ wp_query.op = "selection" => ~wp_query.threw

\* the constructor of explicit specs has selected a solvable of its own repo
\* and an installed one, on a pool whose index was not created before
C28_Witness ==
    /\ wp_query.op = "selection"
    /\ \E x \in wp_query.visited : x.repo = "__explicit_specs__"
    /\ \E x \in wp_query.visited : x.repo = "installed"

\* the number of times the url of target t is in urls.txt
UrlCount(t) == Cardinality({k \in DOMAIN urls_txt : urls_txt[k] = t})

\* extract() of target t has written the record
RecordWritten(t) ==
    /\ ex_pc[t] \in {"try", "ret_true"}
    /\ \E k \in 1 .. (ex_stmt[t] - 1) : try_block(t)[k] = "write_repodata_record"

\* C31: the directory at extract_path holds the repodata_record.json of the
\* package only when the whole archive is in it and extract() has written the
\* record after that, and the directory of a target whose extract() failed
\* (returned false) or was interrupted is never a valid extracted directory
C31_RecordAfterExtraction ==
    \A t \in ExTargets :
        /\ extracted_dir_valid(ex_dir[t]) => (ex_dir[t].tree = "full" /\ RecordWritten(t))
        /\ ex_pc[t] \in {"ret_false", "thrown"} => ~extracted_dir_valid(ex_dir[t])

\* extract() of target 1 returned true over a directory that existed with a
\* stale record, and extract() of target 2 failed after its archive was
\* unpacked
C31_Witness ==
    /\ ex_pc[1] = "ret_true"
    /\ extracted_dir_valid(ex_dir[1])
    /\ ex_pc[2] = "ret_false"
    /\ ex_dir[2] = [tree |-> "full", record |-> "none"]
    /\ sig_interrupted

C33_UrlOncePerExtraction ==
    /\ \A t \in ExTargets :
        /\ UrlCount(t) <= 1
        /\ ex_pc[t] = "ret_true" => UrlCount(t) = 1
        /\ ex_pc[t] \in {"ret_false", "thrown"} => UrlCount(t) = 0
    /\ \A t \in ExTargets, u \in ExTargets :
        (ex_url_pc[t] # "out" /\ ex_url_pc[u] # "out") => t = u

\* target 2 waits for the mutex that target 1 holds, both inside the
\* semaphore, after target 1 wrote its url
C33_Witness ==
    /\ ex_url_pc[1] = "written"
    /\ urls_txt_mutex = 1
    /\ InTry(2, "add_url")
    /\ ex_url_pc[2] = "out"
    /\ urls_txt = << 1 >>

\* C34: when the loading of a PrefixData has met a malformed file of
\* conda-meta, that file has been renamed with a .bad suffix
C34_MalformedQuarantined ==
    prefix_pc = "unexpected" => meta_files[prefix_k].suffix = ".json.bad"

\* the record that m_package_records held for name n before the last call
RecordBefore(n) == {r \in m_records_before : r.name = n}

\* C40: m_package_records never holds two records of the same name, and
\* after load_single_record or add_packages every name that had a record
\* before the call still has that record, the records given for such names
\* being dropped, while every other name given has the first record given
\* for it
C40_UniqueNames ==
    /\ \A r \in m_records, q \in m_records : r.name = q.name => r = q
    /\ prefix_call.op # "none" =>
        /\ m_records_before \subseteq m_records
        /\ \A k \in DOMAIN prefix_call.packages :
             LET p == prefix_call.packages[k] IN
             IF RecordBefore(p.name) # {}
             THEN {r \in m_records : r.name = p.name} = RecordBefore(p.name)
             ELSE \E j \in 1 .. k :
                    /\ prefix_call.packages[j].name = p.name
                    /\ \A h \in 1 .. (j - 1) : prefix_call.packages[h].name # p.name
                    /\ prefix_call.packages[j] \in m_records
        /\ \A r \in m_records \ m_records_before :
             \E k \in DOMAIN prefix_call.packages : prefix_call.packages[k] = r

\* add_packages was given another version of a package that was loaded from
\* conda-meta, and the loaded record is still the one held
C40_Witness ==
    /\ prefix_call.op = "add_packages"
    /\ \E k \in DOMAIN prefix_call.packages :
         /\ RecordBefore(prefix_call.packages[k].name) # {}
         /\ prefix_call.packages[k] \notin m_records
    /\ \E f \in Range(meta_files) : PackageInfo(f) \in m_records

\* C35: every package that a step of the loop of execute links, or fails to
\* link, is an element of m_to_install for which fetch_extract_packages made
\* a target, and every package a step unlinks is an element of m_to_remove
C35_LinkedWereFetched ==
    \A k \in DOMAIN ops :
        /\ ops[k].op \in {"link", "failed_link"} =>
              \E j \in DOMAIN m_to_install :
                  m_to_install[j] = ops[k].pkg /\ j \in DOMAIN targets
        /\ ops[k].op \in {"unlink", "failed_unlink"} => ops[k].pkg \in Range(m_to_remove)

\* a transaction with a filter has left out a step and linked the package of
\* the step that follows it
C35_Witness ==
    /\ m_filter_type # "none"
    /\ Len(steps) = 2
    /\ filter(m_filter_type, m_filter_name_ids, steps[1].s)
    /\ steps[1].ttype # "IGNORE"
    /\ ops = << [op |-> "link", pkg |-> steps[2].s] >>

\* step k is kept: its packages are listed in m_to_remove / m_to_install, and
\* once the loop is past it its operations have been run
StepKept(k) ==
    LET x == steps[k] IN
    /\ x.ttype \in ChangeTypes \cup {"ERASE"} => x.s \in Range(m_to_remove)
    /\ x.ttype \in ChangeTypes => x.obs \in Range(m_to_install)
    /\ x.ttype = "INSTALL" => x.s \in Range(m_to_install)
    /\ (pc \in {"loop", "post", "history"} /\ k < i) =>
          \A j \in DOMAIN step_ops(x) : step_ops(x)[j] \in Range(ops)

\* step k is filtered: no package of its name is listed, linked or unlinked
StepFiltered(k) ==
    LET n == Name(steps[k].s) IN
    /\ \A j \in DOMAIN m_to_install : Name(m_to_install[j]) # n
    /\ \A j \in DOMAIN m_to_remove : Name(m_to_remove[j]) # n
    /\ \A j \in DOMAIN ops : Name(ops[j].pkg) # n

\* C36 as stated: for every setting of the flags no_deps and only_deps that
\* gives the filter of the transaction, with only_deps the steps of the
\* requested names are filtered and the others kept, with no_deps the steps
\* of the requested names are kept and the others filtered, and with neither
\* flag every step is kept
C36_StepFiltering ==
    \A no_deps \in BOOLEAN, only_deps \in BOOLEAN :
        m_filter_type = filter_type(no_deps, only_deps) =>
            \A k \in DOMAIN steps :
                LET requested == Name(steps[k].s) \in m_filter_name_ids IN
                /\ only_deps => IF requested THEN StepFiltered(k) ELSE StepKept(k)
                /\ no_deps => IF requested THEN StepKept(k) ELSE StepFiltered(k)
                /\ (~no_deps /\ ~only_deps) => StepKept(k)

\* C36, amended: the same, the case of no_deps being no_deps without
\* only_deps (with both flags the transaction is filtered as with only_deps)
C36_StepFilteringOneFlag ==
    \A no_deps \in BOOLEAN, only_deps \in BOOLEAN :
        m_filter_type = filter_type(no_deps, only_deps) =>
            \A k \in DOMAIN steps :
                LET requested == Name(steps[k].s) \in m_filter_name_ids IN
                /\ only_deps => IF requested THEN StepFiltered(k) ELSE StepKept(k)
                /\ (no_deps /\ ~only_deps) =>
                      IF requested THEN StepKept(k) ELSE StepFiltered(k)
                /\ (~no_deps /\ ~only_deps) => StepKept(k)

\* execute has returned true for a transaction made with only_deps that
\* replaces the requested package and installs another: only the other
\* package was linked
C36_Witness ==
    /\ m_filter_type = filter_type(FALSE, TRUE)
    /\ pc = "done"
    /\ result = "true"
    /\ \E k \in DOMAIN steps : steps[k].ttype \in ChangeTypes /\ Name(steps[k].s) = "a"
    /\ ops = << [op |-> "link", pkg |-> << "b", 1 >>] >>

\* C39: with dry_run, execute never holds the lock of the prefix, makes no
\* target, runs no link or unlink, leaves conda-meta and the history as they
\* were, and when it has returned it has returned true
C39_DryRunNoEffect ==
    ctx.dry_run =>
        /\ lock # "self"
        /\ targets = << >>
        /\ semaphore = 0
        /\ ops = << >>
        /\ conda_meta = conda_meta0
        /\ history = << >>
        /\ pc \in {"start", "done"}
        /\ pc = "done" => result = "true"

\* a dry run of a transaction that has packages to install has returned
\* while another transaction holds the lock of the prefix
C39_Witness ==
    /\ ctx.dry_run
    /\ pc = "done"
    /\ result = "true"
    /\ m_to_install # << >>
    /\ m_to_remove # << >>
    /\ lock # "free"

\* C37: when the constructor has relinked, an installed noarch python package
\* that the decision of the solver keeps and that no channel holds in the
\* same version is in no step of the rebuilt transaction: it is neither in
\* m_to_remove nor in m_to_install
C37_NoCandidateLeftInstalled ==
    (relink_pc = "done" /\ relink_noarch /\ installed_repo) =>
        \A p \in noarch_python :
            (~DecidedRemoved(p) /\ p \notin channel_pkgs) =>
                /\ \A k \in DOMAIN steps : steps[k].s # p /\ steps[k].obs # p
                /\ p \notin Range(m_to_remove)
                /\ p \notin Range(m_to_install)

\* two installed noarch python packages are kept by the solver; the first
\* is in no channel and stays, the second is reinstalled
C37_Witness ==
    /\ relink_pc = "done"
    /\ noarch_python = {<< "a", 1 >>, << "b", 1 >>}
    /\ ~DecidedRemoved(<< "a", 1 >>)
    /\ << "a", 1 >> \notin channel_pkgs
    /\ job # << >>
    /\ \E k \in DOMAIN steps :
          steps[k] = [ttype |-> "REINSTALLED", s |-> << "b", 1 >>, obs |-> << "b", 1 >>]
    /\ \A k \in DOMAIN steps : Name(steps[k].s) # "a"

\* C38: once download has returned true and fetch_extract_packages waits for
\* its targets, it leaves the loop, and when it does either every target
\* reports finished or an interruption was seen
C38_FetchTerminates ==
    (pc = "wait") ~> (pc = "check" /\ (sig_interrupted \/ all_finished(targets)))

\* the loop was left without interruption with one target whose validation
\* failed and one whose extraction failed
C38_Witness ==
    /\ pc = "check"
    /\ ~sig_interrupted
    /\ Len(targets) = 2
    /\ targets[1].case = "download"
    /\ targets[1].m_validation_result = "SHA256_ERROR"
    /\ targets[2].m_validation_result = "EXTRACT_ERROR"
    /\ all_finished(targets)

====
